---- MODULE Spec2Model ----
(***************************************************************************)
(* senv-db-sync: incremental extraction from a paginated REST source and   *)
(* replication into a destination table by upsert on the column id.        *)
(*                                                                         *)
(* The module holds one specification per component:                       *)
(*   SpecSink   the upsert sink (utils.batch_upsert,                       *)
(*              SupabaseClient.batch_upsert, the retry wrapper of          *)
(*              EndpointSyncManager.sync_endpoint)                         *)
(*   SpecRun    the controller runs (clientes.sync,                        *)
(*              log_vidrios_produccion.sync), repeated against an          *)
(*              unchanged source                                           *)
(*   SpecFetch  the paginated fetchers (http_get_all_pages,                *)
(*              fetch_all_direct, OracleApexClient.fetch_all) against a    *)
(*              source of N records; SpecFetchLive the loop of             *)
(*              OracleApexClient.fetch_all, under weak fairness, against a *)
(*              source that never runs dry                                 *)
(*   SpecMain   the top-level runners (sync_main.main,                     *)
(*              EndpointSyncManager.sync_all, sync_endpoint_4.main)        *)
(*   SpecRange  the date range sync() resolves for log_vidrios_produccion  *)
(*              and v_log_cambios_etapa, and the fetch it then issues      *)
(*   SpecDedup  deduplicate_by_id of each record type                      *)
(*   SpecXform  the transform step of each sync path                       *)
(*   SpecComposite  get_data.fetch_all of v_log_cambios_etapa              *)
(*   SpecPipe   one run of sync() of clientes, log_vidrios_produccion and  *)
(*              v_log_cambios_etapa over items that are objects or not     *)
(*   SpecConfig the runners under every subset of the environment          *)
(*              variables                                                  *)
(*   SpecIdent  the composite ids the transforms build                     *)
(*   SpecExtract  the item list the fetchers take from a page response     *)
(* Records are [id, fec, val]: the identity key, the day of fec_modif and  *)
(* the rest of the row.                                                    *)
(***************************************************************************)
EXTENDS Integers, Sequences, FiniteSets, TLC

\* ------------------------------------------------------------------ bounds
MaxRecs == 5      \* longest record list handed to the sink
MaxBatch == 2     \* largest sub-batch size tried
MaxN == 4         \* most records the source holds
MaxP == 2         \* largest page size tried
MaxKeep == 3      \* against the endless source: entries kept in lists and logs
MaxSrc == 2       \* runs: most records in the source table
MaxKey == 2       \* runs: natural keys 1..MaxKey
MaxDay == 2       \* runs: days of fec_modif 1..MaxDay; today is MaxDay
MaxRuns == 2      \* runs of the same controller in a row
RunBatch == 1     \* runs: BATCH_SIZE of sync_to_supabase, scaled down
RunPage == 1      \* runs: limit of the page requests, scaled down
MaxItems == 3     \* transform: longest batch of raw records
MaxDup == 3       \* dedupe: longest record list handed to deduplicate_by_id

\* ------------------------------------------------------- program constants
MAX_RETRIES == 3  \* sync_all_endpoints.py: max_retries = 3
HTTP_MAX_RETRIES == 3      \* http_get(max_retries=3)
HTTP_RETRY_DELAY == 2      \* http_get(retry_delay=2.0)
ORA_MAX_RETRIES == 3       \* OracleApexConfig.max_retries
ORA_RETRY_DELAY == 2       \* OracleApexConfig.retry_delay
PAGES_CEILING == 10000     \* http_get_all_pages: if page > 10000
DIRECT_CEILING == 200000   \* fetch_all_direct: if page >= 200_000
DIAS_HISTORICO == 30       \* log_vidrios_produccion.sync(dias_historico=30)

VARIABLES
    dest,        \* the destination table: a set of rows
    sk_pc,       \* sink: "idle", "returned", "raised"
    sk_records,  \* sink: the record list of the call
    sk_bs,       \* sink: batch_size of the call
    sk_env,      \* sink: sub-batch number -> how many leading attempts on it fail
    sk_out,      \* sink: outcome of the call
    src_n,       \* source: number of records it holds (records 1..src_n)
    src_shape,   \* source: "dict" ({items, hasMore}), "list" (bare array), "endless"
    f_kind,      \* fetcher: "pages", "direct", "stream", "oracle"
    f_P,         \* fetcher: page size (limit / page_size / batch_size)
    f_pc,        \* fetcher: "request", "process", "done", "raised"
    f_st,        \* fetcher: the loop's locals and what it returned
    f_resp,      \* fetcher: result of the page request being processed
    f_log,       \* fetcher: the page requests issued so far
    src_recs,    \* runs: the source table, records [key, fec] in source order
    r_ctl,       \* runs: "clientes" or "log_vidrios"
    r_result,    \* runs: the result dict of the last run
    r_hist,      \* runs: what the earlier runs did
    m_runner,    \* runner: "sync_main", "sync_all" or "sync_endpoint_4"
    m_pc,        \* runner: "start", "loop", "exited", "interrupted", "aborted"
    m_queue,     \* runner: the record types it is to run, in order
    m_results,   \* runner: the results gathered so far
    m_trace,     \* runner: the runs started and ended so far
    m_exit,      \* runner: the exit code, -1 while it runs
    rg_pc,       \* range: "call", "resolved"
    rg_ctl,      \* range: "log_vidrios" or "v_log"
    rg_args,     \* range: the arguments full_sync, fecha_desde, fecha_hasta of sync()
    rg_fmt,      \* range: how the destination writes a fec_modif, or "fails"
    rg_out,      \* range: the range sync() resolved
    rg_req,      \* range: the first fetch sync() then issues
    dd_pc,       \* dedupe: "call", "returned"
    dd_ctl,      \* dedupe: the record type whose deduplicate_by_id is called
    dd_in,       \* dedupe: the record list of the call
    dd_out,      \* dedupe: what the call returned and reported
    xf_pc,       \* transform: "call", "done"
    xf_path,     \* transform: the sync path whose transform step runs
    xf_in,       \* transform: the raw records of the batch
    xf_out,      \* transform: the list built, the errors counted, whether it raised
    cf_pc,       \* composite fetch: "call", "returned"
    cf_args,     \* composite fetch: the arguments of get_data.fetch_all
    cf_logs,     \* composite fetch: the records of the upstream type at the source
    cf_fail,     \* composite fetch: which request fails on all its attempts
    cf_out,      \* composite fetch: what fetch_all returned and the requests it made
    pp_pc,       \* controller run: "call", "returned"
    pp_path,     \* controller run: "clientes", "log_vidrios" or "v_log"
    pp_src,      \* controller run: the items the source serves, objects or not
    pp_env,      \* controller run: which reads and requests fail
    pp_dest0,    \* controller run: the destination table before the run
    pp_out,      \* controller run: the result dict sync() returned
    id_pc,       \* ids: "call", "done"
    id_path,     \* ids: the transform that runs
    id_in,       \* ids: the raw records handed to it
    id_out,      \* ids: the ids built and the rows the destination then holds
    cg_pc,       \* configuration: "start", "exited"
    cg_runner,   \* configuration: "sync_main", "sync_all" or "sync_endpoint_4"
    cg_env,      \* configuration: which environment variables are set
    cg_out,      \* configuration: the exit code and whether requests were issued
    ex_done,     \* extraction: the fetchers that have read the response
    ex_data,     \* extraction: the JSON body of a page response
    ex_out       \* extraction: the item list each fetcher took from it

sinkVars == <<sk_pc, sk_records, sk_bs, sk_env, sk_out>>
fetchVars == <<src_n, src_shape, f_kind, f_P, f_pc, f_st, f_resp, f_log>>
runVars == <<src_recs, r_ctl, r_result, r_hist>>
mainVars == <<m_runner, m_pc, m_queue, m_results, m_trace, m_exit>>
rangeVars == <<rg_pc, rg_ctl, rg_args, rg_fmt, rg_out, rg_req>>
dedupVars == <<dd_pc, dd_ctl, dd_in, dd_out>>
xformVars == <<xf_pc, xf_path, xf_in, xf_out>>
compVars == <<cf_pc, cf_args, cf_logs, cf_fail, cf_out>>
pipeVars == <<pp_pc, pp_path, pp_src, pp_env, pp_dest0, pp_out>>
identVars == <<id_pc, id_path, id_in, id_out>>
configVars == <<cg_pc, cg_runner, cg_env, cg_out>>
extractVars == <<ex_done, ex_data, ex_out>>
pureVars == <<rangeVars, dedupVars, xformVars, compVars, pipeVars, identVars, configVars,
              extractVars>>
auxVars == <<mainVars, pureVars>>
vars == <<dest, sinkVars, fetchVars, runVars, auxVars>>

Min(a, b) == IF a < b THEN a ELSE b

SeqToSet(s) == {s[k] : k \in 1..Len(s)}

\* ------------------------------------------------------------ destination
\* table.upsert(batch, on_conflict='id'): a row with the id of a record of the
\* batch is replaced by it, any other record of the batch is inserted.
\* a plain insert: the rows in conflict stay
UpsertInserts(rows, batch) == rows \cup SeqToSet(batch)

Upsert(rows, batch) ==
    {r \in rows : \A k \in 1..Len(batch) : batch[k].id /= r.id} \cup SeqToSet(batch)

\* records[i:i + batch_size], i counted from 0 as in the code
SubBatch(records, i, bs) == SubSeq(records, i + 1, Min(i + bs, Len(records)))

\* i // batch_size + 1, the number the code prints for a sub-batch
BatchNo(i, bs) == (i \div bs) + 1

\* .execute() raises on attempt number `attempt` at sub-batch b
ExecuteRaises(env, b, attempt) == attempt <= env[b]

NoOutcome == [impl |-> "none", dest |-> {}, total |-> 0, raised |-> FALSE, sent |-> << >>, calls |-> 0]

\* utils.supabase_client.batch_upsert: the for loop from offset i on. The
\* first sub-batch whose request raises ends the call with that exception.
RECURSIVE UtilsUpsertLoop(_, _, _, _, _, _)
UtilsUpsertLoop(st, records, bs, env, attempt, i) ==
    IF i >= Len(records)
    THEN st
    ELSE LET batch == SubBatch(records, i, bs)
             b == BatchNo(i, bs)
         IN  IF ExecuteRaises(env, b, attempt)
             THEN [st EXCEPT !.sent = Append(@, b), !.raised = TRUE]
             ELSE UtilsUpsertLoop(
                      [st EXCEPT !.dest = Upsert(@, batch),
                                 !.total = @ + Len(batch),
                                 !.sent = Append(@, b)],
                      records, bs, env, attempt, i + bs)

\* utils.supabase_client.batch_upsert(table_name, records, 'id', batch_size)
UtilsBatchUpsert(rows, records, bs, env) ==
    LET st0 == [NoOutcome EXCEPT !.impl = "utils", !.dest = rows, !.calls = 1]
    IN  IF records = << >> THEN st0 ELSE UtilsUpsertLoop(st0, records, bs, env, 1, 0)

\* SupabaseClient.batch_upsert: the for loop from offset i on. A sub-batch
\* whose request raises is printed and the loop continues with the next.
RECURSIVE ClientUpsertLoop(_, _, _, _, _, _)
ClientUpsertLoop(st, records, bs, env, attempt, i) ==
    IF i >= Len(records)
    THEN st
    ELSE LET batch == SubBatch(records, i, bs)
             b == BatchNo(i, bs)
         IN  IF ExecuteRaises(env, b, attempt)
             THEN ClientUpsertLoop([st EXCEPT !.sent = Append(@, b)],
                                   records, bs, env, attempt, i + bs)
             ELSE ClientUpsertLoop(
                      [st EXCEPT !.dest = Upsert(@, batch),
                                 !.total = @ + Len(batch),
                                 !.sent = Append(@, b)],
                      records, bs, env, attempt, i + bs)

\* SupabaseClient.batch_upsert(records, batch_size, 'id')
ClientBatchUpsert(rows, records, bs, env, attempt) ==
    LET st0 == [NoOutcome EXCEPT !.impl = "client", !.dest = rows, !.calls = 1]
    IN  IF records = << >> THEN st0 ELSE ClientUpsertLoop(st0, records, bs, env, attempt, 0)

\* EndpointSyncManager.sync_endpoint, "Insertar con UPSERT ... con retry y
\* backoff": while retry_count < max_retries, call batch_upsert and break; the
\* except branch counts a retry and sleeps 2 ** retry_count.
RECURSIVE RetryUpsertLoop(_, _, _, _, _, _)
RetryUpsertLoop(rows, records, bs, env, retry_count, sent) ==
    IF retry_count >= MAX_RETRIES
    THEN [NoOutcome EXCEPT !.impl = "retry", !.dest = rows, !.sent = sent,
                           !.calls = retry_count]
    ELSE LET r == ClientBatchUpsert(rows, records, bs, env, retry_count + 1)
         IN  IF r.raised
             THEN RetryUpsertLoop(r.dest, records, bs, env, retry_count + 1, sent \o r.sent)
             ELSE [r EXCEPT !.impl = "retry", !.sent = sent \o r.sent,
                            !.calls = retry_count + 1]

\* ------------------------------------------------------------- the source
\* the JSON value None, the data of a failed or 404 request
None == [kind |-> "none", items |-> << >>, hasMore |-> FALSE]

\* records offset + 1 .. offset + limit of a source holding records 1..n
SourceSlice(n, offset, limit) ==
    [k \in 1..(Min(offset + limit, n) - Min(offset, n)) |-> offset + k]

\* body of the 200 answer to GET ?limit=..&offset=..: an object {items,
\* hasMore}, a bare array, or (endless) a full page with hasMore = true
\* whatever the offset
SourceBody(shape, n, offset, limit) ==
    CASE shape = "dict" ->
             [kind |-> "dict", items |-> SourceSlice(n, offset, limit),
              hasMore |-> offset + limit < n]
      [] shape = "list" ->
             [kind |-> "list", items |-> SourceSlice(n, offset, limit),
              hasMore |-> FALSE]
      [] OTHER ->
             [kind |-> "dict", items |-> [k \in 1..limit |-> k], hasMore |-> TRUE]

\* what one page request meets: nfail attempts ending in a transport error or
\* a status other than 200/404, then the answer `final`
PageEnvs == [nfail : 0..HTTP_MAX_RETRIES, final : {"200", "404", "badjson"}]

RECURSIVE Pow2(_)
Pow2(k) == IF k <= 0 THEN 1 ELSE 2 * Pow2(k - 1)

NoResult == [data |-> None, ok |-> FALSE, raised |-> FALSE, attempts |-> 0,
             waits |-> << >>, status |-> "none"]

\* http_get: wait_time = retry_delay * (2 ** (attempt - 1))
HttpWait(attempt) == HTTP_RETRY_DELAY * Pow2(attempt - 1)

\* http_get: for attempt in range(1, max_retries + 1)
RECURSIVE HttpGetLoop(_, _, _, _)
HttpGetLoop(body, e, attempt, waits) ==
    IF attempt > HTTP_MAX_RETRIES
    THEN [NoResult EXCEPT !.attempts = attempt - 1, !.waits = waits, !.status = "error"]
    ELSE IF attempt > e.nfail
         THEN CASE e.final = "200" ->
                       [NoResult EXCEPT !.data = body, !.ok = TRUE, !.attempts = attempt,
                                        !.waits = waits, !.status = "200"]
                [] e.final = "404" ->
                       [NoResult EXCEPT !.ok = TRUE, !.attempts = attempt,
                                        !.waits = waits, !.status = "404"]
                [] OTHER ->
                       [NoResult EXCEPT !.attempts = attempt, !.waits = waits,
                                        !.status = "badjson"]
         ELSE HttpGetLoop(body, e, attempt + 1,
                          IF attempt < HTTP_MAX_RETRIES
                          THEN Append(waits, HttpWait(attempt))
                          ELSE waits)

\* http_get(url, params) -> (data, success)
HttpGet(body, e) == HttpGetLoop(body, e, 1, << >>)

\* OracleApexClient._fetch_batch: time.sleep(self.config.retry_delay)
OracleWait(attempt) == ORA_RETRY_DELAY

\* OracleApexClient._fetch_batch: for attempt in range(max_retries). On 200
\* the items are data.get('items', []): a bare array has no get and the
\* AttributeError leaves the method.
RECURSIVE FetchBatchLoop(_, _, _, _)
FetchBatchLoop(body, e, attempt, waits) ==
    IF attempt >= ORA_MAX_RETRIES
    THEN [NoResult EXCEPT !.attempts = attempt, !.waits = waits, !.status = "error"]
    ELSE IF attempt >= e.nfail
         THEN IF e.final = "200"
              THEN IF body.kind = "list"
                   THEN [NoResult EXCEPT !.raised = TRUE, !.attempts = attempt + 1,
                                         !.waits = waits, !.status = "200"]
                   ELSE [NoResult EXCEPT !.data = [body EXCEPT !.hasMore = FALSE],
                                         !.ok = TRUE, !.attempts = attempt + 1,
                                         !.waits = waits, !.status = "200"]
              ELSE [NoResult EXCEPT !.ok = TRUE, !.attempts = attempt + 1,
                                    !.waits = waits, !.status = "404"]
         ELSE FetchBatchLoop(body, e, attempt + 1,
                             IF attempt < ORA_MAX_RETRIES - 1
                             THEN Append(waits, OracleWait(attempt))
                             ELSE waits)

\* OracleApexClient._fetch_batch(offset) -> (items, success)
FetchBatch(body, e) == FetchBatchLoop(body, e, 0, << >>)

\* ----------------------------------------------------------- the fetchers
\* the locals of a fetch loop and what it returned: ok is "true" / "false",
\* or "none" while it runs and for a fetcher that returns no success flag
NoLoop == [offset |-> 0, page |-> 0, total |-> 0, records |-> << >>, cb |-> << >>,
           pc |-> "loop", ok |-> "none", ret |-> << >>]

\* list.extend / list.append; against the endless source the model keeps the
\* first MaxKeep entries only
Accumulate(seq, more, shape) ==
    IF shape = "endless" /\ Len(seq) >= MaxKeep THEN seq ELSE seq \o more

Return(st, records, ok) == [st EXCEPT !.pc = "done", !.ok = ok, !.ret = records]

\* extract_items_from_response
ExtractItems(data) == IF data.kind = "none" THEN << >> ELSE data.items

\* ---- the item list of any JSON body. An object is [kind |-> "dict"] with
\* the values of its keys items, rows, data, each absent, null, a text or
\* a list, and whether it holds other keys; a value is [t, v]
Absent == [t |-> "absent", v |-> << >>]

\* key in data and isinstance(data[key], list)
HoldsList(val) == val.t = "list"

\* bool(data.get(key)): a list with items or a text with characters
Truthy(val) == (val.t = "list" /\ val.v /= << >>) \/ val.t = "text"

\* bool(data) of an object: it has some key
HasKeys(data) ==
    data.other \/ data.items /= Absent \/ data.rows /= Absent \/ data.data /= Absent

\* extract_items_from_response(data): self says the list returned is
\* [data], the response object itself as the one record
ExtractItemsFromResponse(data) ==
    CASE data.kind = "none" -> [list |-> << >>, self |-> FALSE]
      [] data.kind = "list" -> [list |-> data.list, self |-> FALSE]
      [] data.kind = "dict" ->
             IF HoldsList(data.items) THEN [list |-> data.items.v, self |-> FALSE]
             ELSE IF HoldsList(data.rows) THEN [list |-> data.rows.v, self |-> FALSE]
             ELSE IF HoldsList(data.data) THEN [list |-> data.data.v, self |-> FALSE]
             ELSE [list |-> << >>, self |-> HasKeys(data)]
      [] OTHER -> [list |-> << >>, self |-> FALSE]

\* fetch_all_direct, "Extraer items": data.get('items') or data.get('rows')
\* or data.get('data') or [] for an object, the array itself, and the loop
\* ends on anything else; a text taken as items is kept in v with t "text"
DirectItems(data) ==
    CASE data.kind = "list" -> [list |-> data.list, self |-> FALSE, text |-> FALSE]
      [] data.kind = "dict" ->
             LET val == IF Truthy(data.items) THEN data.items
                        ELSE IF Truthy(data.rows) THEN data.rows
                        ELSE IF Truthy(data.data) THEN data.data
                        ELSE [t |-> "list", v |-> << >>]
             IN  [list |-> val.v, self |-> FALSE, text |-> val.t = "text"]
      [] OTHER -> [list |-> << >>, self |-> FALSE, text |-> FALSE]

\* http_get_all_pages: has_more = data.get('hasMore', False) for a dict only
PagesHasMore(data) == IF data.kind = "dict" THEN data.hasMore ELSE FALSE

\* a fetcher that advances one record too far
PagesNextOffsetSkips(offset, limit) == offset + limit + 1

\* http_get_all_pages: offset += limit
PagesNextOffset(offset, limit) == offset + limit

\* http_get_all_pages: the loop body after http_get returned r
PagesBody(st, r, limit, shape) ==
    IF ~r.ok
    THEN Return(st, st.records, "false")
    ELSE LET items == ExtractItems(r.data)
             recs == Accumulate(st.records, items, shape)
         IN  IF items = << >>
             THEN Return(st, st.records, "true")
             ELSE IF ~PagesHasMore(r.data)
                  THEN Return([st EXCEPT !.records = recs], recs, "true")
                  ELSE LET st1 == [st EXCEPT !.records = recs,
                                             !.offset = PagesNextOffset(@, limit),
                                             !.page = @ + 1]
                       IN  IF st1.page > PAGES_CEILING
                           THEN Return(st1, recs, "true")
                           ELSE st1

\* fetch_all_direct: has_more = data.get('hasMore', False) for a dict,
\* len(items) == page_size for a list
DirectHasMore(data, page_size) ==
    IF data.kind = "dict" THEN data.hasMore ELSE Len(data.items) = page_size

\* a streaming fetcher that keeps the pages it hands over
DirectKeepAccumulates(st, items, streaming, shape) ==
    [st EXCEPT !.total = @ + Len(items),
               !.cb = IF streaming THEN Accumulate(@, <<items>>, shape) ELSE @,
               !.records = Accumulate(@, items, shape)]

\* fetch_all_direct: batch_callback(items) if streaming, else
\* all_records.extend(items); cb lists the calls of the callback
DirectKeep(st, items, streaming, shape) ==
    IF streaming
    THEN [st EXCEPT !.total = @ + Len(items),
                    !.cb = Accumulate(@, <<items>>, shape)]
    ELSE [st EXCEPT !.total = @ + Len(items),
                    !.records = Accumulate(@, items, shape)]

\* a fetcher that asks for the same page again
DirectNextOffsetRepeats(offset, page_size) == offset

\* fetch_all_direct: offset += page_size
DirectNextOffset(offset, page_size) == offset + page_size

\* fetch_all_direct: the loop body after http_get returned r
DirectBody(st, r, page_size, streaming, shape) ==
    IF ~r.ok \/ r.data.kind = "none"
    THEN Return(st, << >>, "false")
    ELSE LET items == r.data.items
             st1 == DirectKeep(st, items, streaming, shape)
         IN  IF items = << >>
             THEN Return(st, st.records, "true")
             ELSE IF ~DirectHasMore(r.data, page_size)
                  THEN Return(st1, st1.records, "true")
                  ELSE IF st1.page >= DIRECT_CEILING
                       THEN Return(st1, st1.records, "true")
                       ELSE [st1 EXCEPT !.offset = DirectNextOffset(@, page_size)]

\* OracleApexClient.fetch_all: offset += self.sync_config.batch_size. Against
\* the endless source the model stops counting at MaxKeep pages.
OracleNextOffset(offset, batch_size, shape) ==
    IF shape = "endless" /\ offset >= MaxKeep * batch_size
    THEN offset
    ELSE offset + batch_size

\* OracleApexClient.fetch_all: the loop body after _fetch_batch returned r;
\* the method returns the list alone
OracleBody(st, r, batch_size, shape) ==
    IF r.raised
    THEN [st EXCEPT !.pc = "raised"]
    ELSE IF ~r.ok
         THEN Return(st, st.records, "none")
         ELSE IF r.data.items = << >>
              THEN Return(st, st.records, "none")
              ELSE [st EXCEPT !.records = Accumulate(@, r.data.items, shape),
                              !.offset = OracleNextOffset(@, batch_size, shape)]

\* one page request as the run saw it: its offset, its attempts, the items it
\* brought, and how many callback calls and destination rows were complete
\* when it was issued
LogEntry(st, rows, r) ==
    [offset |-> st.offset, attempts |-> r.attempts, waits |-> r.waits, ok |-> r.ok,
     status |-> r.status,
     got |-> IF r.ok /\ ~r.raised /\ r.data.kind /= "none" THEN r.data.items ELSE << >>,
     cbs |-> Len(st.cb), rows |-> rows]

\* -------------------------------------------------------- the controllers
\* http_get_all_pages run to its end: envf gives what each page request meets
RECURSIVE HttpGetAllPagesLoop(_, _, _, _, _)
HttpGetAllPagesLoop(st, shape, n, limit, envf) ==
    LET r == HttpGet(SourceBody(shape, n, st.offset, limit), envf[st.page])
        st1 == PagesBody(st, r, limit, shape)
    IN  IF st1.pc = "loop"
        THEN HttpGetAllPagesLoop(st1, shape, n, limit, envf)
        ELSE st1

\* http_get_all_pages(url, limit=...) over the records the endpoint serves
HttpGetAllPages(served, limit, envf) ==
    LET st == HttpGetAllPagesLoop([NoLoop EXCEPT !.page = 1], "dict", Len(served),
                                  limit, envf)
    IN  [records |-> [k \in 1..Len(st.ret) |-> served[st.ret[k]]],
         success |-> st.ok = "true"]

\* a fetch_all that returns what was gathered and reports success whatever
\* http_get_all_pages reported
FetchAllKeepsPartial(served, limit, envf) ==
    [HttpGetAllPages(served, limit, envf) EXCEPT !.success = TRUE]

\* get_data.fetch_all / fetch_all_clientes: if not success: return [], False
FetchAll(served, limit, envf) ==
    LET got == HttpGetAllPages(served, limit, envf)
    IN  IF got.success THEN got ELSE [records |-> << >>, success |-> FALSE]

\* every page answers at once, but page failPage, whose attempts all fail
PageFails(failPage) ==
    [page \in 1..(MaxSrc + 1) |->
        IF page = failPage
        THEN [nfail |-> HTTP_MAX_RETRIES, final |-> "200"]
        ELSE [nfail |-> 0, final |-> "200"]]

\* every upsert request succeeds, but that of sub-batch firstFail
BatchFails(firstFail) ==
    [b \in 1..MaxSrc |-> IF b = firstFail THEN MAX_RETRIES ELSE 0]

\* transform_cliente: id = str(no_cliente)
TransformCliente(rec) == [id |-> <<rec.key>>, fec |-> rec.fec, val |-> 1]

\* transform_log_vidrios_produccion: the id ends in fec_modif
TransformLogVidrios(rec) == [id |-> <<rec.key, rec.fec>>, fec |-> rec.fec, val |-> 1]

\* v_log_cambios_etapa transform_log_cambios_etapa: the id ends in fec_modif
TransformLogCambiosEtapa(rec) ==
    [id |-> <<rec.key, rec.fec>>, fec |-> rec.fec, val |-> 1]

\* transforms_all_savio.transform_log_cambios_etapa, the transform of
\* sync_with_progress and of sync_all: the id is built "SIN fecha"
SavioTransformLogCambiosEtapa(rec) == [id |-> <<rec.key>>, fec |-> rec.fec, val |-> 1]

\* an item of a response that is not a JSON object (null, a string, a
\* number): the transforms read their input with record.get(...) only,
\* which raises AttributeError on it and on nothing else
NotAnObject == [key |-> 0, fec |-> 0]

TransformRaises(rec) == rec = NotAnObject

Transform(ctl, rec) ==
    CASE ctl \in {"clientes", "cotizaciones"} -> TransformCliente(rec)
      [] ctl = "v_log" -> TransformLogCambiosEtapa(rec)
      [] ctl = "sync_with_progress" -> SavioTransformLogCambiosEtapa(rec)
      [] OTHER -> TransformLogVidrios(rec)

\* the except clause of the transform_all of clientes and of cotizaciones
\* prints record.get(...), which raises again on the record that made the
\* transform raise; the other types print the exception only
HandlerReadsRecord(ctl) == ctl \in {"clientes", "cotizaciones"}

NoTransformed == [out |-> << >>, errors |-> 0, raised |-> FALSE]

\* transform_all: the for loop with its try/except
RECURSIVE TransformAllLoop(_, _, _, _)
TransformAllLoop(ctl, records, k, st) ==
    IF k > Len(records)
    THEN st
    ELSE IF ~TransformRaises(records[k])
         THEN TransformAllLoop(ctl, records, k + 1,
                               [st EXCEPT !.out = Append(@, Transform(ctl, records[k]))])
         ELSE IF HandlerReadsRecord(ctl)
              THEN [st EXCEPT !.errors = @ + 1, !.raised = TRUE]
              ELSE TransformAllLoop(ctl, records, k + 1, [st EXCEPT !.errors = @ + 1])

TransformAll(ctl, records) == TransformAllLoop(ctl, records, 1, NoTransformed)

\* transformed = [transform(r) for r in records], the transform step of
\* sync_with_progress, of sync_endpoint_4.main and of sync_endpoint: the
\* first record that fails ends the comprehension and no list is built
TransformComprehension(ctl, records) ==
    IF \E k \in 1..Len(records) : TransformRaises(records[k])
    THEN [NoTransformed EXCEPT !.raised = TRUE]
    ELSE [NoTransformed EXCEPT
             !.out = [k \in 1..Len(records) |-> Transform(ctl, records[k])]]

\* deduplicate_by_id, {r['id']: r for r in records if r.get('id')}: one entry
\* per id, at the place of its first occurrence, holding its last occurrence
RECURSIVE DedupLoop(_, _, _)
DedupLoop(records, k, out) ==
    IF k > Len(records)
    THEN out
    ELSE LET r == records[k]
             at == {j \in 1..Len(out) : out[j].id = r.id}
         IN  IF r.id = << >>
             THEN DedupLoop(records, k + 1, out)
             ELSE IF at = {}
                  THEN DedupLoop(records, k + 1, Append(out, r))
                  ELSE DedupLoop(records, k + 1,
                                 [out EXCEPT ![CHOOSE j \in at : TRUE] = r])

\* a deduplicate_by_id that returns its input as it came
DeduplicateByIdKeepsAll(records) == records

DeduplicateById(records) == DedupLoop(records, 1, << >>)

\* v_log_cambios_etapa deduplicate_by_id, unique.setdefault(id_, r): one entry
\* per id, holding its first occurrence
RECURSIVE DedupFirstLoop(_, _, _)
DedupFirstLoop(records, k, out) ==
    IF k > Len(records)
    THEN out
    ELSE LET r == records[k]
         IN  IF r.id = << >> \/ \E j \in 1..Len(out) : out[j].id = r.id
             THEN DedupFirstLoop(records, k + 1, out)
             ELSE DedupFirstLoop(records, k + 1, Append(out, r))

DeduplicateByIdFirst(records) == DedupFirstLoop(records, 1, << >>)

\* cotizaciones deduplicate_by_id, unique[record_id] = record: an id seen
\* again keeps its place in the dict and takes the later record
DictAssign(unique, record) ==
    LET at == {j \in 1..Len(unique) : unique[j].id = record.id}
    IN  IF at = {} THEN Append(unique, record)
        ELSE [unique EXCEPT ![CHOOSE j \in at : TRUE] = record]

RECURSIVE CotizacionesDedupLoop(_, _, _)
CotizacionesDedupLoop(records, k, unique) ==
    IF k > Len(records)
    THEN unique
    ELSE IF records[k].id /= << >>
         THEN CotizacionesDedupLoop(records, k + 1, DictAssign(unique, records[k]))
         ELSE CotizacionesDedupLoop(records, k + 1, unique)

CotizacionesDeduplicateById(records) == CotizacionesDedupLoop(records, 1, << >>)

\* the list each record type's deduplicate_by_id returns
DedupOf(ctl, records) ==
    CASE ctl = "v_log" -> DeduplicateByIdFirst(records)
      [] ctl = "cotizaciones" -> CotizacionesDeduplicateById(records)
      [] OTHER -> DeduplicateById(records)

\* deduplicate_by_id as a whole: the list returned and the count printed
\* after "Duplicados removidos", len(records) - len(unique), printed when
\* it is positive
NoDedup == [unique |-> << >>, printed |-> FALSE, removed |-> 0]

DeduplicateCall(ctl, records) ==
    LET unique == DedupOf(ctl, records)
    IN  [unique |-> unique, printed |-> Len(records) > Len(unique),
         removed |-> Len(records) - Len(unique)]

\* the k-th record of the source of the fetch specs, as the endpoint serves it
SourceRecord(k) == [key |-> k, fec |-> 1]

SourceRecords(items) == [k \in 1..Len(items) |-> SourceRecord(items[k])]

\* v_log_cambios_etapa synchronize.sync_to_supabase, a component the
\* repository does not hold: the sink as the specification words it, a
\* sub-batch that still fails at the last retry is dropped and the count of
\* the others is returned
VLogSyncToSupabase(rows, unique, firstFail) ==
    ClientBatchUpsert(rows, unique, RunBatch,
                      [b \in 1..Len(unique) |-> IF b = firstFail THEN MAX_RETRIES ELSE 0],
                      MAX_RETRIES)

\* v_log_cambios_etapa sync.process_batch(raw_batch): transform, deduplicate
\* and upsert one page; firstFail is the sub-batch of the page whose
\* request fails, 0 for none
ProcessBatch(rows, raw_batch, firstFail) ==
    LET transformed == TransformAll("v_log", raw_batch).out
        unique == DeduplicateByIdFirst(transformed)
        up == VLogSyncToSupabase(rows, unique, firstFail)
    IN  [dest |-> up.dest, fetched |-> Len(raw_batch), synced |-> up.total,
         dupes |-> Len(transformed) - Len(unique), unique |-> unique,
         written |-> {unique[k] : k \in {j \in 1..Len(unique) :
                                             BatchNo(j - 1, RunBatch) /= firstFail}}]

\* get_max_date: fec_modif of the first row by fec_modif descending; 0 is None
GetMaxDate(rows) ==
    IF rows = {} THEN 0
    ELSE CHOOSE d \in {r.fec : r \in rows} : \A r \in rows : r.fec <= d

Today == MaxDay

NoResultDict ==
    [success |-> FALSE, records_fetched |-> 0, records_synced |-> 0, error |-> "none",
     sync_type |-> "unknown", fecha_desde |-> 0, fecha_hasta |-> 0,
     unique |-> << >>, fetch_ok |-> FALSE, written |-> {}, pages |-> << >>]

\* log_vidrios_produccion synchronize.sync_to_supabase: batch_upsert with
\* BATCH_SIZE, and what it raises is raised again
SyncToSupabase(rows, unique, firstFail) ==
    UtilsBatchUpsert(rows, unique, RunBatch, BatchFails(firstFail))

\* clientes synchronize.sync_to_supabase, a component the repository does not
\* hold: the sink as the specification words it, a sub-batch that still
\* fails at the last retry is skipped and the count of the others is returned
ClientesSyncToSupabase(rows, unique, firstFail) ==
    ClientBatchUpsert(rows, unique, RunBatch, BatchFails(firstFail), MAX_RETRIES)

\* the rows of unique that went in a sub-batch whose request succeeded
Written(unique, up, firstFail) ==
    {unique[k] : k \in {j \in 1..Len(unique) :
                           /\ BatchNo(j - 1, RunBatch) \in SeqToSet(up.sent)
                           /\ BatchNo(j - 1, RunBatch) /= firstFail}}

\* sync(), steps "Transformar", "Deduplicar", "Sincronizar" and the except
\* clause, which stores the exception in result['error']
Pipeline(ctl, rows, result, records, firstFail) ==
    LET t == TransformAll(ctl, records)
        transformed == t.out
        unique == DedupOf(ctl, transformed)
        up == CASE ctl = "clientes" -> ClientesSyncToSupabase(rows, unique, firstFail)
                [] ctl = "v_log" -> VLogSyncToSupabase(rows, unique, firstFail)
                [] OTHER -> SyncToSupabase(rows, unique, firstFail)
        res == [result EXCEPT !.records_fetched = Len(records), !.fetch_ok = TRUE,
                              !.pages = <<records>>]
    IN  IF records = << >>
        THEN [dest |-> rows, result |-> [res EXCEPT !.success = TRUE]]
        ELSE IF t.raised
        THEN [dest |-> rows, result |-> [res EXCEPT !.error = "exception"]]
        ELSE IF transformed = << >>
             THEN [dest |-> rows, result |-> [res EXCEPT !.error = "transform"]]
             ELSE IF up.raised
                  THEN [dest |-> up.dest,
                        result |-> [res EXCEPT !.error = "upsert", !.unique = unique,
                                               !.written = Written(unique, up, firstFail)]]
                  ELSE [dest |-> up.dest,
                        result |-> [res EXCEPT !.success = TRUE, !.unique = unique,
                                               !.records_synced = up.total,
                                               !.written = Written(unique, up, firstFail)]]

\* clientes.sync(): the whole table is fetched on every run
ClientesSync(rows, src, failPage, firstFail) ==
    LET got == FetchAll(src, RunPage, PageFails(failPage))
    IN  IF ~got.success
        THEN [dest |-> rows, result |-> [NoResultDict EXCEPT !.error = "fetch"]]
        ELSE Pipeline("clientes", rows, NoResultDict, got.records, firstFail)

\* the endpoint periodo/log_vidrios/{from}/{to} serves the records modified
\* from day `from` to day `to`
ServedPeriod(src, from, to) ==
    SelectSeq(src, LAMBDA rec : from <= rec.fec /\ rec.fec <= to)

\* log_vidrios_produccion.sync() with its default arguments: from the date of
\* the last fec_modif in the destination, or dias_historico days back when
\* the destination holds none, until today
LogVidriosSyncFrom(last_modified, rows, src, failPage, firstFail) ==
    LET fecha_hasta == Today
        fecha_desde == IF last_modified /= 0 THEN last_modified
                       ELSE Today - DIAS_HISTORICO
        result == [NoResultDict EXCEPT
                      !.sync_type = IF last_modified /= 0 THEN "incremental" ELSE "initial",
                      !.fecha_desde = fecha_desde, !.fecha_hasta = fecha_hasta]
        got == FetchAll(ServedPeriod(src, fecha_desde, fecha_hasta), RunPage,
                        PageFails(failPage))
    IN  IF ~got.success
        THEN [dest |-> rows, result |-> [result EXCEPT !.error = "fetch"]]
        ELSE Pipeline("log_vidrios", rows, result, got.records, firstFail)

LogVidriosSync(rows, src, failPage, firstFail) ==
    LogVidriosSyncFrom(GetMaxDate(rows), rows, src, failPage, firstFail)

\* synchronize.get_last_sync_info()['last_modified']: get_max_date returns
\* None when the read fails, and get_last_sync_info {0, None} when the count
\* fails
GetLastSyncInfo(rows, read_fails) == IF read_fails THEN 0 ELSE GetMaxDate(rows)

\* ---- the composite fetch of v_log_cambios_etapa
\* the source holds k changes of stage for the production order k
CambiosOf(k) == [i \in 1..k |-> [key |-> k, fec |-> i]]

\* the whole table v_log_cambios_etapa, as the direct endpoint serves it
RECURSIVE AllCambios(_)
AllCambios(k) == IF k = 0 THEN << >> ELSE AllCambios(k - 1) \o CambiosOf(k)

\* sorted(list(ordenes_set))
RECURSIVE Sorted(_)
Sorted(S) ==
    IF S = {} THEN << >>
    ELSE LET m == CHOOSE x \in S : \A y \in S : x <= y
         IN  <<m>> \o Sorted(S \ {m})

NoFail == [key |-> 0, page |-> 1, listing |-> FALSE]

\* what the page requests of one fetch meet: they all answer at once, but,
\* when the fetch is the one that fails, those of page `page`
EnvOf(fails, page) ==
    [q \in 1..(MaxKey * MaxKey + 2) |->
        IF fails /\ q = page
        THEN [nfail |-> HTTP_MAX_RETRIES, final |-> "200"]
        ELSE [nfail |-> 0, final |-> "200"]]

\* fetch_all_direct run to its end
RECURSIVE FetchAllDirectLoop(_, _, _, _, _)
FetchAllDirectLoop(st, n, page_size, streaming, envf) ==
    LET st0 == [st EXCEPT !.page = @ + 1]
        r == HttpGet(SourceBody("dict", n, st0.offset, page_size), envf[st0.page])
        st1 == DirectBody(st0, r, page_size, streaming, "dict")
    IN  IF st1.pc = "loop"
        THEN FetchAllDirectLoop(st1, n, page_size, streaming, envf)
        ELSE st1

\* fetch_all_direct(batch_callback=...) over the records the endpoint
\* serves: the list returned, the pages handed to the callback, the flag
FetchAllDirect(served, page_size, streaming, envf) ==
    LET st == FetchAllDirectLoop(NoLoop, Len(served), page_size, streaming, envf)
    IN  [records |-> [k \in 1..Len(st.ret) |-> served[st.ret[k]]],
         cb |-> [c \in 1..Len(st.cb) |->
                    [k \in 1..Len(st.cb[c]) |-> served[st.cb[c][k]]]],
         success |-> st.ok = "true", pages |-> st.page]

\* a key derivation that asks once for every upstream record
GetOrdenesOfEveryLog(logs, fecha_desde, fecha_hasta, fails) ==
    LET served == IF fecha_desde /= 0 /\ fecha_hasta /= 0
                  THEN ServedPeriod(logs, fecha_desde, fecha_hasta)
                  ELSE logs
    IN  [ordenes |-> [k \in 1..Len(served) |-> served[k].key], success |-> ~fails]

\* get_ordenes_produccion_unicas: log_vidrios_produccion fetch_all over the
\* period (both dates given) or over the whole table, then the sorted set
\* of the order numbers
GetOrdenesProduccionUnicas(logs, fecha_desde, fecha_hasta, fails) ==
    LET served == IF fecha_desde /= 0 /\ fecha_hasta /= 0
                  THEN ServedPeriod(logs, fecha_desde, fecha_hasta)
                  ELSE logs
        got == FetchAll(served, RunPage, EnvOf(fails, 1))
    IN  IF ~got.success
        THEN [ordenes |-> << >>, success |-> FALSE]
        ELSE [ordenes |-> Sorted({got.records[k].key : k \in 1..Len(got.records)} \ {0}),
              success |-> TRUE]

\* fetch_cambios_for_orden: http_get_all_pages on periodo/cambios_etapa/{op}
FetchCambiosForOrden(no_orden, envf) == HttpGetAllPages(CambiosOf(no_orden), RunPage, envf)

NoFetchArgs == [fecha_desde |-> 0, fecha_hasta |-> 0, ordenes |-> << >>,
                streaming |-> FALSE]

NoFetched == [records |-> << >>, success |-> FALSE, path |-> "none", upstream |-> 0,
              keys |-> << >>, got |-> << >>, errors |-> 0, cb |-> << >>]

\* a composite fetch that gives up at the first order whose fetch fails
RECURSIVE OrdenesLoopStops(_, _, _, _)
OrdenesLoopStops(ordenes, idx, st, fail) ==
    IF idx > Len(ordenes)
    THEN [st EXCEPT !.success = TRUE]
    ELSE LET no_orden == ordenes[idx]
             got == FetchCambiosForOrden(no_orden, EnvOf(fail.key = no_orden, fail.page))
             st1 == [st EXCEPT !.keys = Append(@, no_orden),
                               !.got = Append(@, got.records)]
         IN  IF got.success
             THEN OrdenesLoopStops(ordenes, idx + 1,
                                   [st1 EXCEPT !.records = @ \o got.records], fail)
             ELSE [st1 EXCEPT !.records = << >>, !.errors = @ + 1]

\* fetch_all, "Consultar cambios para cada orden": keys lists the orders
\* asked for and got what each request sequence brought
RECURSIVE OrdenesLoop(_, _, _, _)
OrdenesLoop(ordenes, idx, st, fail) ==
    IF idx > Len(ordenes)
    THEN [st EXCEPT !.success = TRUE]
    ELSE LET no_orden == ordenes[idx]
             got == FetchCambiosForOrden(no_orden, EnvOf(fail.key = no_orden, fail.page))
             st1 == [st EXCEPT !.keys = Append(@, no_orden),
                               !.got = Append(@, got.records)]
         IN  IF got.success
             THEN OrdenesLoop(ordenes, idx + 1,
                              [st1 EXCEPT !.records = @ \o got.records], fail)
             ELSE OrdenesLoop(ordenes, idx + 1, [st1 EXCEPT !.errors = @ + 1], fail)

\* v_log_cambios_etapa get_data.fetch_all(fecha_desde, fecha_hasta,
\* ordenes_especificas, batch_callback)
VLogFetchAll(args, logs, fail) ==
    IF args.fecha_desde = 0 /\ args.fecha_hasta = 0 /\ args.ordenes = << >>
    THEN LET got == FetchAllDirect(AllCambios(MaxKey), RunPage, args.streaming,
                                   EnvOf(fail.listing, fail.page))
         IN  [NoFetched EXCEPT !.records = got.records, !.success = got.success,
                               !.cb = got.cb, !.path = "direct"]
    ELSE LET up == GetOrdenesProduccionUnicas(logs, args.fecha_desde, args.fecha_hasta,
                                              fail.listing)
             ordenes == IF args.ordenes /= << >> THEN args.ordenes ELSE up.ordenes
             st == [NoFetched EXCEPT !.path = "composite",
                                     !.upstream = IF args.ordenes /= << >> THEN 0 ELSE 1]
         IN  IF args.ordenes = << >> /\ ~up.success
             THEN st
             ELSE OrdenesLoop(ordenes, 1, st, fail)

\* ---- v_log_cambios_etapa.sync() with its default arguments
\* the upstream records of the period: one of today for each order
UpstreamOf == [k \in 1..MaxKey |-> [key |-> k, fec |-> Today]]

\* a process_batch whose total_synced adds the size of the table after each
\* page instead of the count the sink returned
RECURSIVE StreamPagesCountTable(_, _, _)
StreamPagesCountTable(acc, cb, idx) ==
    IF idx > Len(cb)
    THEN acc
    ELSE LET b == ProcessBatch(acc.dest, cb[idx], IF idx = acc.fail_page THEN 1 ELSE 0)
         IN  StreamPagesCountTable([acc EXCEPT !.dest = b.dest, !.fetched = @ + b.fetched,
                                   !.synced = @ + Cardinality(b.dest),
                                   !.dupes = @ + b.dupes,
                                   !.unique = @ \o b.unique,
                                   !.written = @ \cup b.written],
                                   cb, idx + 1)

\* a streaming loop that ends at the page whose upsert request failed
RECURSIVE StreamPagesStopsAtFailure(_, _, _)
StreamPagesStopsAtFailure(acc, cb, idx) ==
    IF idx > Len(cb)
    THEN acc
    ELSE LET b == ProcessBatch(acc.dest, cb[idx], IF idx = acc.fail_page THEN 1 ELSE 0)
             nxt == [acc EXCEPT !.dest = b.dest, !.fetched = @ + b.fetched,
                                !.synced = @ + b.synced, !.dupes = @ + b.dupes,
                                !.unique = @ \o b.unique,
                                !.written = @ \cup b.written]
         IN  IF idx = acc.fail_page /\ b.unique /= << >>
             THEN nxt
             ELSE StreamPagesStopsAtFailure(nxt, cb, idx + 1)

\* the calls of process_batch, page after page, and the totals it keeps;
\* acc.fail_page is the page whose upsert request fails, 0 for none
RECURSIVE StreamPages(_, _, _)
StreamPages(acc, cb, idx) ==
    IF idx > Len(cb)
    THEN acc
    ELSE LET b == ProcessBatch(acc.dest, cb[idx], IF idx = acc.fail_page THEN 1 ELSE 0)
         IN  StreamPages([acc EXCEPT !.dest = b.dest, !.fetched = @ + b.fetched,
                         !.synced = @ + b.synced,
                         !.dupes = @ + b.dupes,
                         !.unique = @ \o b.unique,
                         !.written = @ \cup b.written],
                         cb, idx + 1)

\* sync(): an empty destination, or one whose read failed, gives the full
\* load in streaming mode over the direct endpoint, which serves `table`;
\* otherwise the composite fetch from the day of the last fec_modif until
\* today, then transform, deduplicate, synchronize. fail_page is the page
\* request of the direct endpoint that fails, or when 1 that of the listing
\* of the orders; first_fail the page (when streaming) or the sub-batch
\* (when buffered) whose upsert request fails
VLogSync(rows, table, read_fails, fail_key, fail_page, first_fail) ==
    LET last_modified == GetLastSyncInfo(rows, read_fails)
    IN  IF last_modified = 0
        THEN LET got == FetchAllDirect(table, RunPage, TRUE, EnvOf(fail_page /= 0, fail_page))
                 tot == StreamPages([dest |-> rows, fetched |-> 0, synced |-> 0,
                                     dupes |-> 0, unique |-> << >>, written |-> {},
                                     fail_page |-> first_fail], got.cb, 1)
             IN  IF ~got.success
                 THEN [dest |-> tot.dest,
                       result |-> [NoResultDict EXCEPT !.error = "fetch",
                                                       !.pages = got.cb]]
                 ELSE [dest |-> tot.dest,
                       result |-> [NoResultDict EXCEPT
                                      !.success = TRUE, !.fetch_ok = TRUE,
                                      !.records_fetched = tot.fetched,
                                      !.records_synced = tot.synced,
                                      !.unique = tot.unique,
                                      !.written = tot.written,
                                      !.pages = got.cb]]
        ELSE LET got == VLogFetchAll([NoFetchArgs EXCEPT !.fecha_desde = last_modified,
                                                         !.fecha_hasta = Today],
                                     UpstreamOf,
                                     [NoFail EXCEPT !.key = fail_key,
                                                    !.listing = (fail_page = 1)])
             IN  IF ~got.success
                 THEN [dest |-> rows,
                       result |-> [NoResultDict EXCEPT !.error = "fetch"]]
                 ELSE Pipeline("v_log", rows, NoResultDict, got.records, first_fail)

\* ---- range resolution. A date or timestamp string is the sequence of its
\* parts: the date, then for a timestamp the separator and the time of day.
\* None and the empty string, both falsy in the code's tests, are << >>.
NoneStr == << >>

\* strftime('%Y-%m-%d') of day d
DateStr(d) == <<[k |-> "date", v |-> d]>>

\* a fec_modif as the destination returns it: 'date time' as the transform
\* wrote it, ISO 'dateTtime', or the date alone
FecModifStr(d, fmt) ==
    IF fmt = "date" THEN DateStr(d)
    ELSE DateStr(d) \o <<[k |-> fmt, v |-> 0], [k |-> "time", v |-> 0]>>

\* synchronize.get_last_sync_info()['last_modified']: None when the table is
\* empty, and None as well when the read fails, as get_max_date catches the
\* exception
LastModified(rows, fmt) ==
    IF fmt = "fails" \/ GetMaxDate(rows) = 0 THEN NoneStr
    ELSE FecModifStr(GetMaxDate(rows), fmt)

\* sep in s
Contains(s, sep) == \E i \in 1..Len(s) : s[i].k = sep

\* s.split(sep)[0], and s.split()[0] when seps is the white space
RECURSIVE SplitHead(_, _)
SplitHead(s, seps) ==
    IF s = << >> \/ Head(s).k \in seps THEN << >>
    ELSE <<Head(s)>> \o SplitHead(Tail(s), seps)

\* ---- the ids the transforms build. A text is a sequence of tokens [k, v];
\* a field of a source record is a positive integer, 0 for null (the field
\* is absent, record.get gives None), or for fec_modif an ISO 8601 text
Tok(k, v) == [k |-> k, v |-> v]

Underscore == Tok("_", 0)

\* f"{x}" of an int or None
PyStr(x) == IF x = 0 THEN <<Tok("None", 0)>> ELSE <<Tok("digits", x)>>

\* f"{s}" of a str or None
FmtStr(s) == IF s = NoneStr THEN <<Tok("None", 0)>> ELSE s

\* "2024-05-30T20:56:43Z" of the day d, as the source writes a fec_modif
IsoStr(d) == <<Tok("date", d), Tok("T", 0), Tok("time", 0), Tok("Z", 0)>>

\* parse_oracle_date: datetime.fromisoformat(s.replace('Z', '+00:00')), then
\* strftime('%Y-%m-%d %H:%M:%S'); None for None, '' and a text that does
\* not parse
ParseOracleDate(s) ==
    IF /\ Len(s) = 4
       /\ s[1].k = "date" /\ s[2].k = "T" /\ s[3].k = "time" /\ s[4].k = "Z"
    THEN <<s[1], Tok(" ", 0), s[3]>>
    ELSE NoneStr

\* v_log_cambios_etapa transform_log_cambios_etapa:
\* f"{no_orden}_{dec_seq}_{vip_seq}_{no_etapa}_{fec_modif_raw}"
LogCambiosEtapaId(record) ==
    PyStr(record.no_orden_produccion) \o <<Underscore>> \o PyStr(record.dec_seq)
        \o <<Underscore>> \o PyStr(record.vip_seq) \o <<Underscore>>
        \o PyStr(record.no_etapa) \o <<Underscore>>
        \o FmtStr(ParseOracleDate(record.fec_modif))

\* transforms_all_savio.transform_log_cambios_etapa:
\* f"{no_orden}_{dec_seq}_{vip_seq}_{no_etapa}", "sin fec_modif"
SavioLogCambiosEtapaId(record) ==
    PyStr(record.no_orden_produccion) \o <<Underscore>> \o PyStr(record.dec_seq)
        \o <<Underscore>> \o PyStr(record.vip_seq) \o <<Underscore>>
        \o PyStr(record.no_etapa)

\* a transform that writes the line before the sequence
DetalleCotizacionIdSwapped(record) ==
    PyStr(record.no_cotizacion) \o <<Underscore>> \o PyStr(record.renglon)
        \o <<Underscore>> \o PyStr(record.dec_seq)

\* transform_detalle_cotizacion, in the controller and in
\* transforms_all_savio: f"{no_cot}_{dec_seq}_{renglon}"
DetalleCotizacionId(record) ==
    PyStr(record.no_cotizacion) \o <<Underscore>> \o PyStr(record.dec_seq)
        \o <<Underscore>> \o PyStr(record.renglon)

\* log_vidrios_produccion transform_log_vidrios_produccion:
\* f"{no_orden}_{no_cotizacion}_{dec_seq}_{vip_seq}_{campo}_{fec_modif}",
\* campo and fec_modif written as the source sent them
LogVidriosProduccionId(record) ==
    PyStr(record.no_orden_produccion) \o <<Underscore>> \o PyStr(record.no_cotizacion)
        \o <<Underscore>> \o PyStr(record.dec_seq) \o <<Underscore>>
        \o PyStr(record.vip_seq) \o <<Underscore>> \o FmtStr(record.campo)
        \o <<Underscore>> \o FmtStr(record.fec_modif)

\* clientes transform_cliente: str(record.get('no_cliente'))
ClienteId(record) == PyStr(record.no_cliente)

\* the id the transform of the path gives the record
IdOf(path, record) ==
    CASE path = "v_log" -> LogCambiosEtapaId(record)
      [] path = "sync_with_progress" -> SavioLogCambiosEtapaId(record)
      [] path = "log_vidrios" -> LogVidriosProduccionId(record)
      [] path = "clientes" -> ClienteId(record)
      [] OTHER -> DetalleCotizacionId(record)

\* the row the transform of the path builds: its id and the fields it copies
RowOf(path, record) == [id |-> IdOf(path, record), fields |-> record]

\* the records transformed and upserted one after the other, as events
\* that reach the source at different times are
RECURSIVE SyncEach(_, _, _, _)
SyncEach(path, records, k, st) ==
    IF k > Len(records)
    THEN st
    ELSE LET row == RowOf(path, records[k])
         IN  SyncEach(path, records, k + 1,
                      [ids |-> Append(st.ids, row.id), rows |-> Upsert(st.rows, <<row>>)])

NoArgs == [full_sync |-> FALSE, fecha_desde |-> NoneStr, fecha_hasta |-> NoneStr]

NoRange == [sync_type |-> "unknown", fecha_desde |-> NoneStr, fecha_hasta |-> NoneStr]

\* log_vidrios_produccion.sync(), "Determinar fecha_hasta" and "Determinar
\* fecha_desde": the fields sync_type, fecha_desde, fecha_hasta of result
LogVidriosRange(args, last_modified) ==
    LET fecha_hasta == IF args.fecha_hasta = NoneStr THEN DateStr(Today)
                       ELSE args.fecha_hasta
    IN  IF ~args.full_sync
        THEN IF args.fecha_desde = NoneStr
             THEN IF last_modified /= NoneStr
                  THEN [sync_type |-> "incremental",
                        fecha_desde |-> SplitHead(last_modified, {" "}),
                        fecha_hasta |-> fecha_hasta]
                  ELSE [sync_type |-> "initial",
                        fecha_desde |-> DateStr(Today - DIAS_HISTORICO),
                        fecha_hasta |-> fecha_hasta]
             ELSE [sync_type |-> "custom_range", fecha_desde |-> args.fecha_desde,
                   fecha_hasta |-> fecha_hasta]
        ELSE [sync_type |-> "full", fecha_desde |-> NoneStr, fecha_hasta |-> NoneStr]

\* v_log_cambios_etapa.sync(), "Determinar fecha_desde" and "Determinar
\* fecha_hasta": the locals fecha_desde, fecha_hasta and is_full_load; its
\* result dict has no sync_type
VLogRange(args, last_modified) ==
    LET empty == args.fecha_desde = NoneStr /\ ~args.full_sync /\ last_modified = NoneStr
        fecha_desde ==
            IF args.fecha_desde /= NoneStr THEN args.fecha_desde
            ELSE IF args.full_sync THEN DateStr(Today - DIAS_HISTORICO)
            ELSE IF last_modified /= NoneStr
                 THEN IF Contains(last_modified, "T") THEN SplitHead(last_modified, {"T"})
                      ELSE IF Contains(last_modified, " ")
                           THEN SplitHead(last_modified, {" "})
                           ELSE last_modified
                 ELSE NoneStr
        fecha_hasta0 == IF empty THEN NoneStr ELSE args.fecha_hasta
        fecha_hasta == IF fecha_desde /= NoneStr /\ fecha_hasta0 = NoneStr
                       THEN DateStr(Today) ELSE fecha_hasta0
    IN  [fecha_desde |-> fecha_desde, fecha_hasta |-> fecha_hasta,
         is_full_load |-> fecha_desde = NoneStr /\ fecha_hasta = NoneStr]

\* a caller's date that datetime.fromisoformat rejects, such as 23/01/2026
NotIsoStr == <<[k |-> "text", v |-> 0]>>

\* datetime.fromisoformat(s.replace(' ', 'T')) returns: s is a date, or a
\* date, a blank or a T, and a time of day
IsoParses(s) ==
    /\ s /= NoneStr
    /\ s[1].k = "date"
    /\ \/ Len(s) = 1
       \/ Len(s) = 3 /\ s[2].k \in {" ", "T"} /\ s[3].k = "time"

\* datetime.fromisoformat(...).date()
IsoDate(s) == s[1].v

NoRequest == [table |-> "none", path |-> "none", fec1 |-> 0, fec2 |-> 0,
              streaming |-> FALSE]

\* log_vidrios_produccion get_data.get_endpoint_url: the period path when
\* both dates are given and parse, the general endpoint otherwise
GetEndpointUrl(fecha_desde, fecha_hasta) ==
    IF fecha_desde /= NoneStr /\ fecha_hasta /= NoneStr
    THEN IF IsoParses(fecha_desde) /\ IsoParses(fecha_hasta)
         THEN [path |-> "periodo/log_vidrios", fec1 |-> IsoDate(fecha_desde),
               fec2 |-> IsoDate(fecha_hasta)]
         ELSE [path |-> "log_vidrios_produccion", fec1 |-> 0, fec2 |-> 0]
    ELSE [path |-> "log_vidrios_produccion", fec1 |-> 0, fec2 |-> 0]

\* log_vidrios_produccion get_data.fetch_all: http_get_all_pages on that
\* url, which gathers every page in one list
LogVidriosFetchAll(fecha_desde, fecha_hasta) ==
    LET url == GetEndpointUrl(fecha_desde, fecha_hasta)
    IN  [table |-> "log_vidrios", path |-> url.path, fec1 |-> url.fec1,
         fec2 |-> url.fec2, streaming |-> FALSE]

\* v_log_cambios_etapa get_data.fetch_all, its first fetch: the direct
\* endpoint without dates, streaming when a batch_callback is given;
\* otherwise the listing of the orders, a fetch_all of log_vidrios_produccion
VLogFirstFetch(fecha_desde, fecha_hasta, batch_callback) ==
    IF fecha_desde = NoneStr /\ fecha_hasta = NoneStr
    THEN [table |-> "v_log", path |-> "v_log_cambios_etapa", fec1 |-> 0, fec2 |-> 0,
          streaming |-> batch_callback]
    ELSE LogVidriosFetchAll(fecha_desde, fecha_hasta)

ControllerSync(ctl, rows, src, failPage, firstFail) ==
    IF ctl = "clientes"
    THEN ClientesSync(rows, src, failPage, firstFail)
    ELSE LogVidriosSync(rows, src, failPage, firstFail)

NoHist == [runs |-> 0, dest0 |-> {}, interrupted |-> FALSE, prev_dest |-> {},
           prev_complete |-> FALSE]

\* a run committed every record it had to write
Complete(result) == result.success /\ result.records_synced = Len(result.unique)

\* ------------------------------------------------------------ the runners
\* a runner that starts with the logs
MainControllersLogsFirst ==
    <<"log_vidrios_produccion", "vidrios_produccion", "clientes", "proyectos_cliente",
      "v_insumos", "cotizaciones", "detalle_cotizacion">>

\* sync_main.main: the controllers it runs, in the order of its lines;
\* v_log_cambios_etapa is commented out
MainControllers ==
    <<"clientes", "proyectos_cliente", "v_insumos", "cotizaciones",
      "detalle_cotizacion", "vidrios_produccion", "log_vidrios_produccion">>

\* src/config/endpoints_tables.json, a file the repository does not hold: the
\* endpoints in the order the specification words, catalogs, transactional,
\* production and logs
EndpointsConfig ==
    <<"clientes", "proyectos_cliente", "v_insumos", "cotizaciones",
      "detalle_cotizacion", "vidrios_produccion", "log_vidrios_produccion",
      "v_log_cambios_etapa">>

\* the keys of TRANSFORMATIONS and of TABLES
TRANSFORMATIONS ==
    {"v_log_cambios_etapa", "log_vidrios_produccion", "detalle_cotizacion",
     "vidrios_produccion", "cotizaciones", "clientes", "proyectos_cliente",
     "v_insumos"}

TABLES == TRANSFORMATIONS

\* sync_all: the endpoints of the configuration that have a transformation
\* and a table
ValidEndpoints(config) ==
    SelectSeq(config, LAMBDA name : name \in TRANSFORMATIONS /\ name \in TABLES)

\* the methods of the class SupabaseClient
SupabaseClientMethods == {"batch_upsert", "insert_batch", "count_records"}

\* what a controller run meets: nothing, a failing fetch, or an exception
\* anywhere inside its try block
RunOutcomes == {"ok", "fetch_fails", "raises"}

\* a controller that lets its exception out
ControllerRunLetsOut(name, outcome) ==
    [name |-> name, success |-> outcome = "ok", fetch_failed |-> outcome = "fetch_fails",
     error |-> outcome /= "ok", escaped |-> outcome = "raises"]

\* controller.run() as the runner sees it: sync() returns its result dict;
\* a failing fetch returns it with an error, and the except clause turns any
\* exception into an error result
ControllerRun(name, outcome) ==
    [name |-> name, success |-> outcome = "ok", fetch_failed |-> outcome = "fetch_fails",
     error |-> outcome /= "ok", escaped |-> FALSE]

\* every page request is answered at once, but that of page failPage, whose
\* attempts all fail
BatchFetchFails(failPage) ==
    [page \in 1..(MaxSrc + 1) |->
        IF page = failPage
        THEN [nfail |-> ORA_MAX_RETRIES, final |-> "200"]
        ELSE [nfail |-> 0, final |-> "200"]]

NoStream == [offset |-> 0, page |-> 1, fetched |-> 0, inserted |-> 0,
             fetch_failed |-> FALSE, dest |-> {}]

\* the while loop of sync_endpoint and of sync_endpoint_4.main: fetch a batch,
\* break if it failed or is empty, transform (and deduplicate by id, last
\* wins, in sync_endpoint), upsert, advance the offset
RECURSIVE StreamLoop(_, _, _, _, _)
StreamLoop(st, n, bs, envf, dedupe) ==
    LET r == FetchBatch(SourceBody("dict", n, st.offset, bs), envf[st.page])
        records == r.data.items
        transformed == [k \in 1..Len(records) |->
                           TransformLogVidrios(SourceRecord(records[k]))]
        unique == IF dedupe THEN DeduplicateById(transformed) ELSE transformed
        up == ClientBatchUpsert(st.dest, unique, bs, [b \in 1..Len(unique) |-> 0], 1)
    IN  IF ~r.ok
        THEN [st EXCEPT !.fetch_failed = TRUE]
        ELSE IF records = << >>
             THEN st
             ELSE StreamLoop([st EXCEPT !.offset = @ + bs, !.page = @ + 1,
                                        !.fetched = @ + Len(records),
                                        !.inserted = @ + up.total,
                                        !.dest = up.dest],
                             n, bs, envf, dedupe)

\* EndpointSyncManager.sync_endpoint: supabase_client.get_max_date is called
\* before the loop; SupabaseClient has no such method, the AttributeError is
\* caught by the except clause and the status is an error
SyncEndpoint(name, rows, n, failPage) ==
    IF "get_max_date" \notin SupabaseClientMethods
    THEN [name |-> name, success |-> FALSE, fetch_failed |-> FALSE, error |-> TRUE,
          escaped |-> FALSE, fetched |-> 0, inserted |-> 0, dest |-> rows]
    ELSE LET st == StreamLoop([NoStream EXCEPT !.dest = rows], n, RunPage,
                              BatchFetchFails(failPage), TRUE)
         IN  [name |-> name, success |-> TRUE, fetch_failed |-> st.fetch_failed,
              error |-> FALSE, escaped |-> FALSE, fetched |-> st.fetched,
              inserted |-> st.inserted, dest |-> st.dest]

\* sync_endpoint_4.main, the run of the one endpoint log_vidrios_produccion:
\* after the loop it prints the summary and returns 0
SyncEndpoint4(rows, n, failPage) ==
    LET st == StreamLoop([NoStream EXCEPT !.dest = rows], n, RunPage,
                         BatchFetchFails(failPage), FALSE)
    IN  [name |-> "log_vidrios_produccion", success |-> TRUE,
         fetch_failed |-> st.fetch_failed, error |-> FALSE, escaped |-> FALSE,
         fetched |-> st.fetched, inserted |-> st.inserted, dest |-> st.dest]

\* what the runner keeps of a run
Entry(res) ==
    [name |-> res.name, success |-> res.success, fetch_failed |-> res.fetch_failed,
     error |-> res.error]

\* self.results[name] = ...: a dict keeps one entry per key
DictSet(results, entry) ==
    IF \E k \in 1..Len(results) : results[k].name = entry.name
    THEN [k \in 1..Len(results) |->
             IF results[k].name = entry.name THEN entry ELSE results[k]]
    ELSE Append(results, entry)

\* an exit code that hides the failures
ExitCodeAlwaysZero(results) == 0 * Len(results)

\* sync_main: return 0 if all(r.get('success') for r in results) else 1;
\* sync_all: get_exit_code
ExitCode(results) ==
    IF \A k \in 1..Len(results) : results[k].success THEN 0 ELSE 1

\* --------------------------------------------------------------- the sink
\* the record lists handed to the sink are deduplicated: ids 1..n in order
SinkInput(n) == [k \in 1..n |-> [id |-> k, fec |-> 1, val |-> 1]]

OldRows(n) == {[id |-> k, fec |-> 1, val |-> 0] : k \in 1..n}

SinkIdle ==
    /\ sk_pc = "off"
    /\ sk_records = << >>
    /\ sk_bs = 1
    /\ sk_env = [b \in 1..MaxRecs |-> 0]
    /\ sk_out = NoOutcome

FetchIdle ==
    /\ src_n = 0
    /\ src_shape = "dict"
    /\ f_kind = "none"
    /\ f_P = 1
    /\ f_pc = "off"
    /\ f_st = NoLoop
    /\ f_resp = NoResult
    /\ f_log = << >>

RunIdle ==
    /\ src_recs = << >>
    /\ r_ctl = "none"
    /\ r_result = NoResultDict
    /\ r_hist = NoHist

MainIdle ==
    /\ m_runner = "none"
    /\ m_pc = "off"
    /\ m_queue = << >>
    /\ m_results = << >>
    /\ m_trace = << >>
    /\ m_exit = -1

RangeIdle ==
    /\ rg_pc = "off"
    /\ rg_ctl = "none"
    /\ rg_args = NoArgs
    /\ rg_fmt = "date"
    /\ rg_out = NoRange
    /\ rg_req = NoRequest

DedupIdle ==
    /\ dd_pc = "off"
    /\ dd_ctl = "none"
    /\ dd_in = << >>
    /\ dd_out = NoDedup

XformIdle ==
    /\ xf_pc = "off"
    /\ xf_path = "none"
    /\ xf_in = << >>
    /\ xf_out = NoTransformed

CompIdle ==
    /\ cf_pc = "off"
    /\ cf_args = NoFetchArgs
    /\ cf_logs = << >>
    /\ cf_fail = NoFail
    /\ cf_out = NoFetched

NoPipeEnv == [read_fails |-> FALSE, fail_key |-> 0, fail_page |-> 0, first_fail |-> 0]

PipeIdle ==
    /\ pp_pc = "off"
    /\ pp_path = "none"
    /\ pp_src = << >>
    /\ pp_env = NoPipeEnv
    /\ pp_dest0 = {}
    /\ pp_out = NoResultDict

NoIds == [ids |-> << >>, rows |-> {}]

IdentIdle ==
    /\ id_pc = "off"
    /\ id_path = "none"
    /\ id_in = << >>
    /\ id_out = NoIds

EnvVars == {"ORACLE_APEX_BASE_URL", "ORACLE_APEX_USERNAME", "ORACLE_APEX_PASSWORD",
            "SUPABASE_URL", "SUPABASE_KEY"}

NoExit == [exit |-> -1, to_source |-> FALSE, to_dest |-> FALSE]

ConfigIdle ==
    /\ cg_pc = "off"
    /\ cg_runner = "none"
    /\ cg_env = [v \in EnvVars |-> TRUE]
    /\ cg_out = NoExit

NoItems == [list |-> << >>, self |-> FALSE]

ExtractIdle ==
    /\ ex_done = {}
    /\ ex_data = None
    /\ ex_out = [pages |-> NoItems, direct |-> NoItems]

PureIdle ==
    /\ RangeIdle /\ DedupIdle /\ XformIdle /\ CompIdle /\ PipeIdle /\ IdentIdle
    /\ ConfigIdle /\ ExtractIdle

AuxIdle == MainIdle /\ PureIdle

InitSink ==
    /\ FetchIdle
    /\ RunIdle
    /\ AuxIdle
    /\ sk_pc = "idle"
    /\ \E n \in 0..MaxRecs : sk_records = SinkInput(n)
    /\ sk_bs \in 1..MaxBatch
    /\ sk_env \in [1..MaxRecs -> {0, 1, MAX_RETRIES}]
    /\ dest \in {{}, OldRows(MaxRecs)}
    /\ sk_out = NoOutcome

Finish(r) ==
    /\ sk_out' = r
    /\ dest' = r.dest
    /\ sk_pc' = IF r.raised THEN "raised" ELSE "returned"
    /\ UNCHANGED <<sk_records, sk_bs, sk_env, fetchVars, runVars, auxVars>>

CallUtilsBatchUpsert ==
    /\ sk_pc = "idle"
    /\ Finish(UtilsBatchUpsert(dest, sk_records, sk_bs, sk_env))

CallClientBatchUpsert ==
    /\ sk_pc = "idle"
    /\ Finish(ClientBatchUpsert(dest, sk_records, sk_bs, sk_env, 1))

CallRetryUpsert ==
    /\ sk_pc = "idle"
    /\ Finish(RetryUpsertLoop(dest, sk_records, sk_bs, sk_env, 0, << >>))

NextSink == CallUtilsBatchUpsert \/ CallClientBatchUpsert \/ CallRetryUpsert

SpecSink == InitSink /\ [][NextSink]_vars

\* ------------------------------------------------------ the fetch specs
InitFetchLoop ==
    /\ SinkIdle
    /\ RunIdle
    /\ AuxIdle
    /\ dest = {}
    /\ f_pc = "request"
    /\ f_st = [NoLoop EXCEPT !.page = IF f_kind = "pages" THEN 1 ELSE 0]
    /\ f_resp = NoResult
    /\ f_log = << >>

InitFetch ==
    /\ f_kind \in {"pages", "direct", "stream", "oracle"}
    /\ InitFetchLoop
    /\ src_n \in 0..MaxN
    /\ src_shape \in {"dict", "list"}
    /\ f_P \in 1..MaxP

\* the one loop that has no page ceiling, against the endless source
InitFetchLive ==
    /\ f_kind = "oracle"
    /\ InitFetchLoop
    /\ src_n = 0
    /\ src_shape = "endless"
    /\ f_P \in 1..MaxP

\* one page request of the loop: http_get (or _fetch_batch) with its retries
Request(r, st) ==
    /\ f_resp' = r
    /\ f_log' = Accumulate(f_log, <<LogEntry(f_st, dest, r)>>, src_shape)
    /\ f_st' = st
    /\ f_pc' = "process"
    /\ UNCHANGED <<dest, sinkVars, runVars, auxVars, src_n, src_shape, f_kind, f_P>>

\* the rest of the loop body, the call of the page callback included
Process(st, rows) ==
    /\ f_st' = st
    /\ f_pc' = IF st.pc = "loop" THEN "request" ELSE st.pc
    /\ dest' = rows
    /\ UNCHANGED <<sinkVars, runVars, auxVars, src_n, src_shape, f_kind, f_P, f_resp, f_log>>

HttpGetAllPagesRequest ==
    /\ f_kind = "pages" /\ f_pc = "request"
    /\ \E e \in PageEnvs :
           Request(HttpGet(SourceBody(src_shape, src_n, f_st.offset, f_P), e), f_st)

HttpGetAllPagesProcess ==
    /\ f_kind = "pages" /\ f_pc = "process"
    /\ Process(PagesBody(f_st, f_resp, f_P, src_shape), dest)

FetchAllDirectRequest ==
    /\ f_kind \in {"direct", "stream"} /\ f_pc = "request"
    /\ \E e \in PageEnvs :
           Request(HttpGet(SourceBody(src_shape, src_n, f_st.offset, f_P), e),
                   [f_st EXCEPT !.page = @ + 1])

FetchAllDirectProcess ==
    /\ f_kind \in {"direct", "stream"} /\ f_pc = "process"
    /\ LET st == DirectBody(f_st, f_resp, f_P, f_kind = "stream", src_shape)
       IN  Process(st, IF Len(st.cb) > Len(f_st.cb)
                       THEN ProcessBatch(dest, SourceRecords(st.cb[Len(st.cb)]), 0).dest
                       ELSE dest)

OracleFetchAllRequest ==
    /\ f_kind = "oracle" /\ f_pc = "request"
    /\ \E e \in PageEnvs :
           /\ e.final /= "badjson"
           /\ Request(FetchBatch(SourceBody(src_shape, src_n, f_st.offset, f_P), e), f_st)

OracleFetchAllProcess ==
    /\ f_kind = "oracle" /\ f_pc = "process"
    /\ Process(OracleBody(f_st, f_resp, f_P, src_shape), dest)

NextFetch ==
    \/ HttpGetAllPagesRequest
    \/ HttpGetAllPagesProcess
    \/ FetchAllDirectRequest
    \/ FetchAllDirectProcess
    \/ OracleFetchAllRequest
    \/ OracleFetchAllProcess

SpecFetch == InitFetch /\ [][NextFetch]_vars

NextFetchLive == OracleFetchAllRequest \/ OracleFetchAllProcess

\* the loop is sequential code: its next step is always taken
SpecFetchLive == InitFetchLive /\ [][NextFetchLive]_vars /\ WF_vars(NextFetchLive)

\* -------------------------------------------------------- the run spec
SeqsUpTo(S, n) == UNION {[1..k -> S] : k \in 0..n}

\* rows written by an earlier state of the source: same ids, other content
StaleRows(ctl, src) ==
    {[Transform(ctl, src[k]) EXCEPT !.val = 0] : k \in 1..Len(src)}

InitRun ==
    /\ SinkIdle
    /\ FetchIdle
    /\ AuxIdle
    /\ r_ctl \in {"clientes", "log_vidrios"}
    /\ src_recs \in SeqsUpTo([key : 1..MaxKey, fec : 1..MaxDay], MaxSrc)
    /\ dest \in {{}, StaleRows(r_ctl, src_recs)}
    /\ r_result = NoResultDict
    /\ r_hist = [NoHist EXCEPT !.dest0 = dest]

\* one run of the controller, start to end
Run(out) ==
    /\ dest' = out.dest
    /\ r_result' = out.result
    /\ r_hist' = [r_hist EXCEPT
                     !.runs = @ + 1,
                     !.interrupted = @ \/ (out.result.error = "upsert"
                                           /\ out.result.written /= {}),
                     !.prev_dest = dest,
                     !.prev_complete = r_hist.runs > 0 /\ Complete(r_result)]
    /\ UNCHANGED <<sinkVars, fetchVars, auxVars, src_recs, r_ctl>>

SyncClientes ==
    /\ r_ctl = "clientes"
    /\ r_hist.runs < MaxRuns
    /\ \E failPage \in 0..MaxSrc, firstFail \in 0..MaxSrc :
           Run(ClientesSync(dest, src_recs, failPage, firstFail))

SyncLogVidrios ==
    /\ r_ctl = "log_vidrios"
    /\ r_hist.runs < MaxRuns
    /\ \E failPage \in 0..MaxSrc, firstFail \in 0..MaxSrc :
           Run(LogVidriosSync(dest, src_recs, failPage, firstFail))

NextRun == SyncClientes \/ SyncLogVidrios

SpecRun == InitRun /\ [][NextRun]_vars

\* ----------------------------------------------------- the runner spec
InitMain ==
    /\ SinkIdle
    /\ FetchIdle
    /\ RunIdle
    /\ PureIdle
    /\ dest = {}
    /\ m_runner \in {"sync_main", "sync_all", "sync_endpoint_4"}
    /\ m_pc = "start"
    /\ m_queue = << >>
    /\ m_results = << >>
    /\ m_trace = << >>
    /\ m_exit = -1

Started(name) == [ev |-> "start", name |-> name]
Ended(name) == [ev |-> "end", name |-> name]

Exit(pc, code) ==
    /\ m_pc' = pc
    /\ m_exit' = code

NextName == m_queue[Len(m_trace) \div 2 + 1]

MoreToRun == Len(m_trace) \div 2 < Len(m_queue)

\* sync_main.main up to its try block: without SUPABASE_URL and SUPABASE_KEY
\* it returns 1
MainStart ==
    /\ m_runner = "sync_main" /\ m_pc = "start"
    /\ \E env_ok \in BOOLEAN :
           IF env_ok
           THEN /\ m_pc' = "loop"
                /\ m_queue' = MainControllers
                /\ UNCHANGED m_exit
           ELSE /\ Exit("aborted", 1)
                /\ UNCHANGED m_queue
    /\ UNCHANGED <<dest, sinkVars, fetchVars, runVars, pureVars, m_runner, m_results, m_trace>>

\* results.append(<controller>.run()); an exception that left the controller
\* would end main with 1
MainRunController ==
    /\ m_runner = "sync_main" /\ m_pc = "loop" /\ MoreToRun
    /\ \E outcome \in RunOutcomes :
           LET res == ControllerRun(NextName, outcome)
           IN  /\ m_trace' = m_trace \o <<Started(NextName), Ended(NextName)>>
               /\ IF res.escaped
                  THEN Exit("aborted", 1) /\ UNCHANGED m_results
                  ELSE /\ m_results' = Append(m_results, Entry(res))
                       /\ UNCHANGED <<m_pc, m_exit>>
    /\ UNCHANGED <<dest, sinkVars, fetchVars, runVars, pureVars, m_runner, m_queue>>

\* KeyboardInterrupt while a record type runs: no except Exception clause
\* stops it, main returns 130
KeyboardInterrupt ==
    /\ m_runner \in {"sync_main", "sync_all"} /\ m_pc = "loop" /\ MoreToRun
    /\ m_trace' = Append(m_trace, Started(NextName))
    /\ Exit("interrupted", 130)
    /\ UNCHANGED <<dest, sinkVars, fetchVars, runVars, pureVars, m_runner, m_queue, m_results>>

\* print_summary, then the exit code
RunnerFinish ==
    /\ m_runner \in {"sync_main", "sync_all"} /\ m_pc = "loop" /\ ~MoreToRun
    /\ Exit("exited", ExitCode(m_results))
    /\ UNCHANGED <<dest, sinkVars, fetchVars, runVars, pureVars, m_runner, m_queue, m_results, m_trace>>

\* sync_all up to its loop: a configuration that cannot be loaded returns 1
SyncAllLoad ==
    /\ m_runner = "sync_all" /\ m_pc = "start"
    /\ \E loaded \in BOOLEAN :
           IF loaded
           THEN /\ m_pc' = "loop"
                /\ m_queue' = ValidEndpoints(EndpointsConfig)
                /\ UNCHANGED m_exit
           ELSE /\ Exit("aborted", 1)
                /\ UNCHANGED m_queue
    /\ UNCHANGED <<dest, sinkVars, fetchVars, runVars, pureVars, m_runner, m_results, m_trace>>

\* fetched, inserted, status = self.sync_endpoint(...); self.results[name] = ...
SyncAllRunEndpoint ==
    /\ m_runner = "sync_all" /\ m_pc = "loop" /\ MoreToRun
    /\ \E n \in 0..MaxSrc, failPage \in 0..MaxSrc :
           LET res == SyncEndpoint(NextName, dest, n, failPage)
           IN  /\ m_trace' = m_trace \o <<Started(NextName), Ended(NextName)>>
               /\ m_results' = DictSet(m_results, Entry(res))
               /\ dest' = res.dest
    /\ UNCHANGED <<sinkVars, fetchVars, runVars, pureVars, m_runner, m_queue, m_pc, m_exit>>

\* sync_endpoint_4.main, start to end
SyncEndpoint4Main ==
    /\ m_runner = "sync_endpoint_4" /\ m_pc = "start"
    /\ \E n \in 0..MaxSrc, failPage \in 0..MaxSrc :
           LET res == SyncEndpoint4(dest, n, failPage)
           IN  /\ m_trace' = <<Started(res.name), Ended(res.name)>>
               /\ m_results' = <<Entry(res)>>
               /\ m_queue' = <<res.name>>
               /\ dest' = res.dest
               /\ Exit("exited", 0)
    /\ UNCHANGED <<sinkVars, fetchVars, runVars, pureVars, m_runner>>

NextMain ==
    \/ MainStart
    \/ MainRunController
    \/ KeyboardInterrupt
    \/ RunnerFinish
    \/ SyncAllLoad
    \/ SyncAllRunEndpoint
    \/ SyncEndpoint4Main

SpecMain == InitMain /\ [][NextMain]_vars

\* ----------------------------------------------------- the range spec
\* sync() of the two record types that resolve a range, called with every
\* combination of full_sync, fecha_desde and fecha_hasta, a date or a text
\* that is none, against a destination that is empty or holds rows and
\* whose read of the last fec_modif succeeds or fails
ExplicitDates == {NoneStr, NotIsoStr} \cup {DateStr(d) : d \in 1..MaxDay}

DestRows == {[id |-> <<d>>, fec |-> d, val |-> 1] : d \in 1..MaxDay}

InitRange ==
    /\ SinkIdle
    /\ FetchIdle
    /\ RunIdle
    /\ MainIdle
    /\ DedupIdle
    /\ XformIdle
    /\ CompIdle
    /\ PipeIdle
    /\ IdentIdle
    /\ ConfigIdle
    /\ ExtractIdle
    /\ dest \in SUBSET DestRows
    /\ rg_pc = "call"
    /\ rg_ctl \in {"log_vidrios", "v_log"}
    /\ rg_args \in [full_sync : BOOLEAN, fecha_desde : ExplicitDates,
                     fecha_hasta : ExplicitDates]
    /\ rg_fmt \in {" ", "T", "date", "fails"}
    /\ rg_out = NoRange
    /\ rg_req = NoRequest

Resolved(out, req) ==
    /\ rg_pc' = "resolved"
    /\ rg_out' = out
    /\ rg_req' = req
    /\ UNCHANGED <<dest, sinkVars, fetchVars, runVars, mainVars, dedupVars,
                   xformVars, compVars, pipeVars, identVars, configVars, extractVars, rg_ctl, rg_args, rg_fmt>>

ResolveLogVidrios ==
    /\ rg_pc = "call"
    /\ rg_ctl = "log_vidrios"
    /\ LET range == LogVidriosRange(rg_args, LastModified(dest, rg_fmt))
       IN  Resolved(range, LogVidriosFetchAll(range.fecha_desde, range.fecha_hasta))

ResolveVLog ==
    /\ rg_pc = "call"
    /\ rg_ctl = "v_log"
    /\ LET range == VLogRange(rg_args, LastModified(dest, rg_fmt))
       IN  Resolved(range, VLogFirstFetch(range.fecha_desde, range.fecha_hasta,
                                          range.is_full_load))

NextRange == ResolveLogVidrios \/ ResolveVLog

SpecRange == InitRange /\ [][NextRange]_vars

\* ---------------------------------------------------- the dedupe spec
\* deduplicate_by_id of each record type, called with every list of up to
\* MaxDup records whose ids are empty or 1..MaxKey; val is the place of the
\* record in the list
DedupIds == {<< >>} \cup {<<k>> : k \in 1..MaxKey}

DedupInput(ids) == [k \in 1..Len(ids) |-> [id |-> ids[k], fec |-> 1, val |-> k]]

InitDedup ==
    /\ SinkIdle
    /\ FetchIdle
    /\ RunIdle
    /\ MainIdle
    /\ RangeIdle
    /\ XformIdle
    /\ CompIdle
    /\ PipeIdle
    /\ IdentIdle
    /\ ConfigIdle
    /\ ExtractIdle
    /\ dest = {}
    /\ dd_pc = "call"
    /\ dd_ctl \in {"clientes", "cotizaciones", "log_vidrios", "v_log"}
    /\ \E ids \in SeqsUpTo(DedupIds, MaxDup) : dd_in = DedupInput(ids)
    /\ dd_out = NoDedup

Returned(out) ==
    /\ dd_pc' = "returned"
    /\ dd_out' = out
    /\ UNCHANGED <<dest, sinkVars, fetchVars, runVars, mainVars, rangeVars,
                   xformVars, compVars, pipeVars, identVars, configVars, extractVars, dd_ctl, dd_in>>

DeduplicateClientes ==
    /\ dd_pc = "call"
    /\ dd_ctl = "clientes"
    /\ Returned(DeduplicateCall(dd_ctl, dd_in))

DeduplicateCotizaciones ==
    /\ dd_pc = "call"
    /\ dd_ctl = "cotizaciones"
    /\ Returned(DeduplicateCall(dd_ctl, dd_in))

DeduplicateLogVidrios ==
    /\ dd_pc = "call"
    /\ dd_ctl = "log_vidrios"
    /\ Returned(DeduplicateCall(dd_ctl, dd_in))

DeduplicateVLog ==
    /\ dd_pc = "call"
    /\ dd_ctl = "v_log"
    /\ Returned(DeduplicateCall(dd_ctl, dd_in))

NextDedup ==
    \/ DeduplicateClientes
    \/ DeduplicateCotizaciones
    \/ DeduplicateLogVidrios
    \/ DeduplicateVLog

SpecDedup == InitDedup /\ [][NextDedup]_vars

\* -------------------------------------------------- the transform spec
\* the transform step of each sync path, on every batch of up to MaxItems
\* raw records, each a JSON object with key 1..MaxKey or not an object
RawItems == {NotAnObject} \cup {[key |-> k, fec |-> 1] : k \in 1..MaxKey}

InitXform ==
    /\ SinkIdle
    /\ FetchIdle
    /\ RunIdle
    /\ MainIdle
    /\ RangeIdle
    /\ DedupIdle
    /\ CompIdle
    /\ PipeIdle
    /\ IdentIdle
    /\ ConfigIdle
    /\ ExtractIdle
    /\ dest = {}
    /\ xf_pc = "call"
    /\ xf_path \in {"clientes", "cotizaciones", "log_vidrios", "v_log",
                     "sync_with_progress"}
    /\ xf_in \in SeqsUpTo(RawItems, MaxItems)
    /\ xf_out = NoTransformed

Transformed(out) ==
    /\ xf_pc' = "done"
    /\ xf_out' = out
    /\ UNCHANGED <<dest, sinkVars, fetchVars, runVars, mainVars, rangeVars,
                   dedupVars, compVars, pipeVars, identVars, configVars, extractVars, xf_path, xf_in>>

TransformAllClientes ==
    /\ xf_pc = "call"
    /\ xf_path = "clientes"
    /\ Transformed(TransformAll(xf_path, xf_in))

TransformAllCotizaciones ==
    /\ xf_pc = "call"
    /\ xf_path = "cotizaciones"
    /\ Transformed(TransformAll(xf_path, xf_in))

TransformAllLogVidrios ==
    /\ xf_pc = "call"
    /\ xf_path = "log_vidrios"
    /\ Transformed(TransformAll(xf_path, xf_in))

TransformAllVLog ==
    /\ xf_pc = "call"
    /\ xf_path = "v_log"
    /\ Transformed(TransformAll(xf_path, xf_in))

SyncWithProgressTransform ==
    /\ xf_pc = "call"
    /\ xf_path = "sync_with_progress"
    /\ Transformed(TransformComprehension(xf_path, xf_in))

NextXform ==
    \/ TransformAllClientes
    \/ TransformAllCotizaciones
    \/ TransformAllLogVidrios
    \/ TransformAllVLog
    \/ SyncWithProgressTransform

SpecXform == InitXform /\ [][NextXform]_vars

\* ------------------------------------------- the composite fetch spec
\* get_data.fetch_all of v_log_cambios_etapa, called with and without dates
\* and order list, against upstream records modified on day 1 or today, with
\* at most one request sequence failing
UpstreamLogs == SeqsUpTo([key : 1..MaxKey, fec : {1, Today}], MaxSrc)

InitComposite ==
    /\ SinkIdle
    /\ FetchIdle
    /\ RunIdle
    /\ MainIdle
    /\ RangeIdle
    /\ DedupIdle
    /\ XformIdle
    /\ PipeIdle
    /\ IdentIdle
    /\ ConfigIdle
    /\ ExtractIdle
    /\ dest = {}
    /\ cf_pc = "call"
    /\ cf_args \in [fecha_desde : {0, 1, Today}, fecha_hasta : {0, Today},
                     ordenes : {<< >>, <<MaxKey, 1>>}, streaming : BOOLEAN]
    /\ cf_logs \in UpstreamLogs
    /\ cf_fail \in [key : 0..MaxKey, page : {1, 2}, listing : BOOLEAN]
    /\ cf_out = NoFetched

VLogGetDataFetchAll ==
    /\ cf_pc = "call"
    /\ cf_pc' = "returned"
    /\ cf_out' = VLogFetchAll(cf_args, cf_logs, cf_fail)
    /\ UNCHANGED <<dest, sinkVars, fetchVars, runVars, mainVars, rangeVars,
                   dedupVars, xformVars, pipeVars, identVars, configVars, extractVars, cf_args, cf_logs, cf_fail>>

NextComposite == VLogGetDataFetchAll

SpecComposite == InitComposite /\ [][NextComposite]_vars

\* ------------------------------------------------ the controller spec
\* one run of sync() of each controller, with its default arguments, over a
\* source whose items are objects or not, into an empty destination or one
\* that holds an earlier row, while a read of the destination, a page
\* request, the requests of one order or a sub-batch may fail
InitPipe ==
    /\ SinkIdle
    /\ FetchIdle
    /\ RunIdle
    /\ MainIdle
    /\ RangeIdle
    /\ DedupIdle
    /\ XformIdle
    /\ CompIdle
    /\ IdentIdle
    /\ ConfigIdle
    /\ ExtractIdle
    /\ pp_pc = "call"
    /\ pp_path \in {"clientes", "log_vidrios", "v_log"}
    /\ pp_src \in SeqsUpTo(RawItems, MaxSrc)
    /\ pp_env \in [read_fails : BOOLEAN, fail_key : 0..MaxKey, fail_page : 0..MaxSrc,
                   first_fail : 0..MaxSrc]
    /\ dest \in {{}, StaleRows(pp_path, <<[key |-> 1, fec |-> 1]>>)}
    /\ pp_dest0 = dest
    /\ pp_out = NoResultDict

SyncReturned(out) ==
    /\ pp_pc' = "returned"
    /\ dest' = out.dest
    /\ pp_out' = out.result
    /\ UNCHANGED <<sinkVars, fetchVars, runVars, mainVars, rangeVars, dedupVars,
                   xformVars, compVars, identVars, configVars, extractVars, pp_path, pp_src, pp_env, pp_dest0>>

\* sync() of the controller `path`; clientes.sync() calls
\* get_last_sync_info and leaves its result unused
SyncWithDefaults(path, rows, src, env) ==
    CASE path = "clientes" -> ClientesSync(rows, src, env.fail_page, env.first_fail)
      [] path = "log_vidrios" ->
             LogVidriosSyncFrom(GetLastSyncInfo(rows, env.read_fails), rows, src,
                                env.fail_page, env.first_fail)
      [] OTHER -> VLogSync(rows, src, env.read_fails, env.fail_key, env.fail_page,
                           env.first_fail)

ClientesControllerSync ==
    /\ pp_pc = "call"
    /\ pp_path = "clientes"
    /\ SyncReturned(ClientesSync(dest, pp_src, pp_env.fail_page, pp_env.first_fail))

LogVidriosControllerSync ==
    /\ pp_pc = "call"
    /\ pp_path = "log_vidrios"
    /\ SyncReturned(LogVidriosSyncFrom(GetLastSyncInfo(dest, pp_env.read_fails), dest,
                                       pp_src, pp_env.fail_page, pp_env.first_fail))

VLogControllerSync ==
    /\ pp_pc = "call"
    /\ pp_path = "v_log"
    /\ SyncReturned(VLogSync(dest, pp_src, pp_env.read_fails, pp_env.fail_key,
                              pp_env.fail_page, pp_env.first_fail))

NextPipe ==
    \/ ClientesControllerSync
    \/ LogVidriosControllerSync
    \/ VLogControllerSync

SpecPipe == InitPipe /\ [][NextPipe]_vars

\* --------------------------------------------- the configuration spec
\* each runner, start to exit, under every subset of the environment
\* variables being set
\* the variables the runner reads with no default value
RequiredVars(runner) ==
    CASE runner = "sync_main" -> {"SUPABASE_URL", "SUPABASE_KEY"}
      [] runner = "sync_all" -> {"ORACLE_APEX_USERNAME", "ORACLE_APEX_PASSWORD",
                                 "SUPABASE_URL", "SUPABASE_KEY"}
      [] OTHER -> EnvVars

\* missing_vars = [var for var in required_vars if not os.getenv(var)]
MissingVars(runner, env) == {v \in RequiredVars(runner) : ~env[v]}

InitConfig ==
    /\ SinkIdle
    /\ FetchIdle
    /\ RunIdle
    /\ MainIdle
    /\ RangeIdle
    /\ DedupIdle
    /\ XformIdle
    /\ CompIdle
    /\ PipeIdle
    /\ IdentIdle
    /\ ExtractIdle
    /\ dest = {}
    /\ cg_pc = "start"
    /\ cg_runner \in {"sync_main", "sync_all", "sync_endpoint_4"}
    /\ cg_env \in [EnvVars -> BOOLEAN]
    /\ cg_out = NoExit

Exited(rows, out) ==
    /\ cg_pc' = "exited"
    /\ dest' = rows
    /\ cg_out' = out
    /\ UNCHANGED <<sinkVars, fetchVars, runVars, mainVars, rangeVars, dedupVars,
                   xformVars, compVars, pipeVars, identVars, extractVars, cg_runner, cg_env>>

\* sync_main.main: without SUPABASE_URL or SUPABASE_KEY it returns 1 before
\* its try block; otherwise every controller runs, reads the destination
\* and requests the source
SyncMainMain ==
    /\ cg_pc = "start"
    /\ cg_runner = "sync_main"
    /\ IF MissingVars(cg_runner, cg_env) /= {}
       THEN Exited(dest, [NoExit EXCEPT !.exit = 1])
       ELSE \E outcome \in RunOutcomes :
                LET results == [k \in 1..Len(MainControllers) |->
                                   Entry(ControllerRun(MainControllers[k], outcome))]
                IN  Exited(dest, [exit |-> ExitCode(results), to_source |-> TRUE,
                                  to_dest |-> TRUE])

\* sync_all_endpoints.main: the four required variables, then sync_all,
\* whose sync_endpoint calls build the clients and end at get_max_date
SyncAllMain ==
    /\ cg_pc = "start"
    /\ cg_runner = "sync_all"
    /\ IF MissingVars(cg_runner, cg_env) /= {}
       THEN Exited(dest, [NoExit EXCEPT !.exit = 1])
       ELSE LET names == ValidEndpoints(EndpointsConfig)
                results == [k \in 1..Len(names) |->
                               Entry(SyncEndpoint(names[k], dest, 0, 0))]
            IN  Exited(dest, [NoExit EXCEPT !.exit = ExitCode(results)])

\* sync_endpoint_4.main: no variable is checked. create_client raises
\* without URL or key, outside the try block, and the interpreter ends with
\* 1; without ORACLE_APEX_BASE_URL the URL is "None/log_vidrios_produccion",
\* every attempt raises a RequestException that _fetch_batch catches, the
\* loop breaks and main returns 0; without the credentials the requests go
\* out with auth (None, None)
SyncEndpoint4Unchecked ==
    /\ cg_pc = "start"
    /\ cg_runner = "sync_endpoint_4"
    /\ IF ~cg_env["SUPABASE_URL"] \/ ~cg_env["SUPABASE_KEY"]
       THEN Exited(dest, [NoExit EXCEPT !.exit = 1])
       ELSE IF ~cg_env["ORACLE_APEX_BASE_URL"]
       THEN Exited(dest, [NoExit EXCEPT !.exit = 0])
       ELSE \E n \in 0..MaxSrc, failPage \in 0..MaxSrc :
                LET res == SyncEndpoint4(dest, n, failPage)
                IN  Exited(res.dest, [exit |-> 0, to_source |-> TRUE,
                                      to_dest |-> res.fetched > 0])

NextConfig ==
    \/ SyncMainMain
    \/ SyncAllMain
    \/ SyncEndpoint4Unchecked

SpecConfig == InitConfig /\ [][NextConfig]_vars

\* ------------------------------------------------------------ the id spec
\* the transforms that build composite ids, on one record or on two, each
\* then upserted into an empty table
LogEvents ==
    [no_orden_produccion : 1..MaxKey, dec_seq : {1}, vip_seq : {1}, no_etapa : {0, 1},
     fec_modif : {NoneStr, NotIsoStr} \cup {IsoStr(d) : d \in 1..MaxDay}]

\* texts of a log_vidrios_produccion record: a word, and two words around
\* a '_'
Words == {<<Tok("text", 1)>>, <<Tok("text", 1), Underscore, Tok("text", 1)>>}

\* the text "None"
NoneText == <<Tok("None", 0)>>

\* records that carry every key; a null is NoneStr
VidriosRecords ==
    [no_orden_produccion : {1}, no_cotizacion : {0, 1}, dec_seq : {1}, vip_seq : {1},
     campo : {NoneStr, NoneText} \cup Words, fec_modif : {IsoStr(MaxDay)} \cup Words]

ClienteRecords == [no_cliente : 0..MaxKey]

DetalleRecords == [no_cotizacion : {1, 100}, dec_seq : {0, 2}, renglon : {3, 12}]

LogPaths == {"v_log", "sync_with_progress"}

DetallePaths == {"detalle_cotizacion", "savio_detalle_cotizacion"}

InitIdent ==
    /\ SinkIdle
    /\ FetchIdle
    /\ RunIdle
    /\ MainIdle
    /\ RangeIdle
    /\ DedupIdle
    /\ XformIdle
    /\ CompIdle
    /\ PipeIdle
    /\ ConfigIdle
    /\ ExtractIdle
    /\ dest = {}
    /\ id_pc = "call"
    /\ id_path \in LogPaths \cup DetallePaths \cup {"log_vidrios", "clientes"}
    /\ id_in \in CASE id_path \in LogPaths -> [1..2 -> LogEvents]
                   [] id_path = "log_vidrios" -> [1..2 -> VidriosRecords]
                   [] id_path = "clientes" -> [1..2 -> ClienteRecords]
                   [] OTHER -> [1..1 -> DetalleRecords] \cup [1..2 -> DetalleRecords]
    /\ id_out = NoIds

Synced(out) ==
    /\ id_pc' = "done"
    /\ id_out' = out
    /\ UNCHANGED <<dest, sinkVars, fetchVars, runVars, mainVars, rangeVars, dedupVars,
                   xformVars, compVars, pipeVars, configVars, extractVars, id_path, id_in>>

VLogTransformAndSync ==
    /\ id_pc = "call"
    /\ id_path = "v_log"
    /\ Synced(SyncEach(id_path, id_in, 1, NoIds))

SyncWithProgressTransformAndSync ==
    /\ id_pc = "call"
    /\ id_path = "sync_with_progress"
    /\ Synced(SyncEach(id_path, id_in, 1, NoIds))

DetalleTransformAndSync ==
    /\ id_pc = "call"
    /\ id_path = "detalle_cotizacion"
    /\ Synced(SyncEach(id_path, id_in, 1, NoIds))

SavioDetalleTransformAndSync ==
    /\ id_pc = "call"
    /\ id_path = "savio_detalle_cotizacion"
    /\ Synced(SyncEach(id_path, id_in, 1, NoIds))

LogVidriosTransformAndSync ==
    /\ id_pc = "call"
    /\ id_path = "log_vidrios"
    /\ Synced(SyncEach(id_path, id_in, 1, NoIds))

ClientesTransformAndSync ==
    /\ id_pc = "call"
    /\ id_path = "clientes"
    /\ Synced(SyncEach(id_path, id_in, 1, NoIds))

NextIdent ==
    \/ LogVidriosTransformAndSync
    \/ ClientesTransformAndSync
    \/ VLogTransformAndSync
    \/ SyncWithProgressTransformAndSync
    \/ DetalleTransformAndSync
    \/ SavioDetalleTransformAndSync

SpecIdent == InitIdent /\ [][NextIdent]_vars

\* ------------------------------------------------ the extraction spec
\* one page response, any JSON body, read by the buffered fetcher
\* http_get_all_pages and by the streaming fetcher fetch_all_direct
JsonValues ==
    {Absent, [t |-> "null", v |-> << >>], [t |-> "text", v |-> <<0>>]}
    \cup {[t |-> "list", v |-> l] : l \in {<< >>, <<1>>, <<2>>}}

JsonBodies ==
    {[kind |-> "list", list |-> l] : l \in {<< >>, <<1>>, <<1, 2>>}}
    \cup {[kind |-> "scalar"]}
    \cup [kind : {"dict"}, items : JsonValues, rows : JsonValues, data : JsonValues,
          other : BOOLEAN]

InitExtract ==
    /\ SinkIdle
    /\ FetchIdle
    /\ RunIdle
    /\ MainIdle
    /\ RangeIdle
    /\ DedupIdle
    /\ XformIdle
    /\ CompIdle
    /\ PipeIdle
    /\ IdentIdle
    /\ ConfigIdle
    /\ dest = {}
    /\ ex_done = {}
    /\ ex_data \in JsonBodies
    /\ ex_out = [pages |-> NoItems, direct |-> NoItems]

Extracted(fetcher, items) ==
    /\ fetcher \notin ex_done
    /\ ex_done' = ex_done \cup {fetcher}
    /\ ex_out' = [ex_out EXCEPT ![fetcher] = items]
    /\ UNCHANGED <<dest, sinkVars, fetchVars, runVars, mainVars, rangeVars, dedupVars,
                   xformVars, compVars, pipeVars, identVars, configVars, ex_data>>

HttpGetAllPagesExtract == Extracted("pages", ExtractItemsFromResponse(ex_data))

FetchAllDirectExtract ==
    LET items == DirectItems(ex_data)
    IN  Extracted("direct", [list |-> items.list, self |-> items.self])

NextExtract ==
    \/ HttpGetAllPagesExtract
    \/ FetchAllDirectExtract

SpecExtract == InitExtract /\ [][NextExtract]_vars

\* ----------------------------------------------------------- sink claims
\* number of sub-batches of a list of n records: ceil(n / bs)
NumBatches(n, bs) == (n + bs - 1) \div bs

SinkBatches == 1..NumBatches(Len(sk_records), sk_bs)

RowsOfBatch(b) == SeqToSet(SubBatch(sk_records, (b - 1) * sk_bs, sk_bs))

SizeOfBatch(b) == Len(SubBatch(sk_records, (b - 1) * sk_bs, sk_bs))

\* exactly sub-batch b fails, on every attempt; every other one succeeds at once
OnlyFailsPermanently(b) ==
    /\ sk_env[b] = MAX_RETRIES
    /\ \A c \in SinkBatches \ {b} : sk_env[c] = 0

\* C1: when one sub-batch fails permanently the upsert does not raise, every
\* other sub-batch is still sent and committed, and the returned count is the
\* total size of the sub-batches that succeeded.
C1_PartialFailureContained ==
    sk_pc /= "idle" =>
        \A b \in SinkBatches :
            OnlyFailsPermanently(b) =>
                /\ sk_pc = "returned"
                /\ \A c \in SinkBatches \ {b} :
                       /\ \E k \in 1..Len(sk_out.sent) : sk_out.sent[k] = c
                       /\ RowsOfBatch(c) \subseteq dest
                /\ sk_out.total = Len(sk_records) - SizeOfBatch(b)

\* C2: a sub-batch whose request fails is attempted again within the retry
\* count: when every sub-batch succeeds on its first or on a later attempt
\* below the retry count, the call returns with every record committed and
\* each record counted once.
C2_FailedSubBatchRetried ==
    sk_pc /= "idle" =>
        ((\A b \in SinkBatches : sk_env[b] < MAX_RETRIES) =>
            /\ sk_pc = "returned"
            /\ SeqToSet(sk_records) \subseteq dest
            /\ sk_out.total = Len(sk_records))

\* ------------------------------------------------------------ run claims
\* the rows one run without any failure writes from the first destination state
UninterruptedRows ==
    SeqToSet(ControllerSync(r_ctl, r_hist.dest0, src_recs, 0, 0).result.unique)

\* C3: a run whose fetch succeeded ends with success = true and no error
\* result, also when an upsert sub-batch failed for good; the shortfall shows
\* only in records_synced.
C3_SuccessDespiteShortfall ==
    (r_hist.runs > 0 /\ r_result.fetch_ok)
        => (r_result.success /\ r_result.error = "none")

\* C4: after a run that failed with part of its data committed, once a later
\* run with default arguments completes (source unchanged) the destination
\* holds every row a single uninterrupted run from the first destination
\* state would have written.
C4_RerunCatchesUp ==
    (r_hist.interrupted /\ Complete(r_result)) => UninterruptedRows \subseteq dest

\* C5: upserting a record twice leaves exactly one row with its id, every
\* committed record is the only row of its id, and a run that follows a
\* complete run against the unchanged source leaves the destination as the
\* complete run left it.
C5_UpsertIdempotent ==
    /\ \A k \in 1..Len(r_result.unique) :
           LET r == r_result.unique[k]
               twice == Upsert(Upsert(dest, <<r>>), <<r>>)
           IN  {x \in twice : x.id = r.id} = {r}
    /\ \A r \in r_result.written : {x \in dest : x.id = r.id} = {r}
    /\ r_hist.prev_complete => dest = r_hist.prev_dest

\* two complete runs of log_vidrios_produccion over stale rows and a source
\* that repeats a record
C5_Witness ==
    /\ r_ctl = "log_vidrios"
    /\ r_hist.runs = MaxRuns
    /\ r_hist.prev_complete
    /\ Complete(r_result)
    /\ r_hist.dest0 /= {}
    /\ Len(r_result.unique) >= 1
    /\ Len(r_result.unique) < Len(src_recs)
    /\ dest = SeqToSet(r_result.unique)

\* ---------------------------------------------------------- runner claims
\* C13: a record type's run whose fetch failed is never reported as
\* successful: its result has success = false (a status other than SUCCESS)
\* and an error.
C13_FetchFailureReported ==
    \A k \in 1..Len(m_results) :
        m_results[k].fetch_failed => (~m_results[k].success /\ m_results[k].error)

ResultNames == [k \in 1..Len(m_results) |-> m_results[k].name]

\* each record type of names started and ended once, one after the other
TraceOf(names) ==
    [k \in 1..(2 * Len(names)) |->
        IF k % 2 = 1 THEN Started(names[(k + 1) \div 2]) ELSE Ended(names[k \div 2])]

\* C14: in the one-shot runners a record type's failure does not keep the
\* following record types from running: the results are those of the
\* configured record types in order, and a runner that ended without a user
\* interrupt has run every one of them exactly once and holds an entry for
\* each.
C14_FailureDoesNotStopOthers ==
    m_runner \in {"sync_main", "sync_all"} =>
        /\ ResultNames = SubSeq(m_queue, 1, Len(m_results))
        /\ (m_pc \in {"exited", "aborted"} /\ m_exit # 130) =>
               /\ ResultNames = m_queue
               /\ m_trace = TraceOf(m_queue)

\* sync_main ran all its controllers although the first two failed
C14_Witness ==
    /\ m_runner = "sync_main"
    /\ m_pc = "exited"
    /\ Len(m_results) = Len(MainControllers)
    /\ m_results[1].fetch_failed
    /\ m_results[2].error /\ ~m_results[2].fetch_failed
    /\ m_results[Len(m_results)].success
    /\ m_exit = 1

\* C15: a one-shot runner that ran its record types returns 0 exactly when
\* every run succeeded and 1 when at least one failed, a fetch failure in the
\* middle of the sequence included; it returns 130 when the user interrupts
\* it, and only then.
C15_ExitCode ==
    m_runner \in {"sync_main", "sync_all"} =>
        /\ m_pc = "exited" =>
               /\ m_exit = 0 <=> \A k \in 1..Len(m_results) : m_results[k].success
               /\ m_exit = 1 <=> \E k \in 1..Len(m_results) :
                                     \/ ~m_results[k].success
                                     \/ m_results[k].fetch_failed
                                     \/ m_results[k].error
        /\ m_pc = "interrupted" <=> m_exit = 130

\* sync_main returned 1 after a fetch failure in its fourth controller alone
C15_Witness ==
    /\ m_runner = "sync_main"
    /\ m_pc = "exited"
    /\ m_exit = 1
    /\ \A k \in 1..Len(m_results) : m_results[k].fetch_failed <=> k = 4
    /\ \A k \in 1..Len(m_results) : m_results[k].success <=> k # 4
    /\ Len(m_results) = Len(MainControllers)

\* catalogs 1, transactional 2, production and logs 3
Category(name) ==
    CASE name \in {"clientes", "proyectos_cliente", "v_insumos"} -> 1
      [] name \in {"cotizaciones", "detalle_cotizacion"} -> 2
      [] OTHER -> 3

ToOrToday == IF rg_args.fecha_hasta = NoneStr THEN DateStr(Today) ELSE rg_args.fecha_hasta

\* the mode sync() reports; v_log_cambios_etapa reports none
ModeIs(mode) == rg_ctl = "log_vidrios" => rg_out.sync_type = mode

\* C17: with full_sync false and no explicit fecha_desde, the resolved range
\* starts at the date part of the destination's latest fec_modif, in mode
\* incremental, when the destination has rows, and DIAS_HISTORICO days
\* before today, in mode initial, when it is empty; it ends today
C17_WatermarkFallback ==
    (rg_pc = "resolved" /\ ~rg_args.full_sync /\ rg_args.fecha_desde = NoneStr)
        => /\ rg_out.fecha_hasta = ToOrToday
           /\ IF dest /= {}
              THEN rg_out.fecha_desde = DateStr(GetMaxDate(dest)) /\ ModeIs("incremental")
              ELSE rg_out.fecha_desde = DateStr(Today - DIAS_HISTORICO) /\ ModeIs("initial")

\* the range of a full sync: unbounded for log_vidrios_produccion, the last
\* DIAS_HISTORICO days for v_log_cambios_etapa
FullSyncRange ==
    IF rg_ctl = "log_vidrios"
    THEN [fecha_desde |-> NoneStr, fecha_hasta |-> NoneStr]
    ELSE [fecha_desde |-> DateStr(Today - DIAS_HISTORICO), fecha_hasta |-> ToOrToday]

\* C18: full_sync comes before an explicit range for every record type:
\* with full_sync true the resolved range is the full-sync range, in mode
\* full, whatever fecha_desde was given; with full_sync false an explicit
\* fecha_desde is used as given, to fecha_hasta or today, in mode
\* custom_range
C18_FullSyncPrecedence ==
    rg_pc = "resolved"
        => /\ rg_args.full_sync
                => /\ rg_out.fecha_desde = FullSyncRange.fecha_desde
                   /\ rg_out.fecha_hasta = FullSyncRange.fecha_hasta
                   /\ ModeIs("full")
           /\ (~rg_args.full_sync /\ rg_args.fecha_desde /= NoneStr)
                => /\ rg_out.fecha_desde = rg_args.fecha_desde
                   /\ rg_out.fecha_hasta = ToOrToday
                   /\ ModeIs("custom_range")

\* --------------------------------------------------------- dedupe claims
\* the non-empty ids of the input, and the places where an id occurs in it
TruthyIds == {dd_in[k].id : k \in 1..Len(dd_in)} \ {<< >>}

Occurrences(id) == {k \in 1..Len(dd_in) : dd_in[k].id = id}

FirstOf(S) == CHOOSE k \in S : \A j \in S : k <= j

LastOf(S) == CHOOSE k \in S : \A j \in S : j <= k

LogTypes == {"log_vidrios", "v_log"}

\* C19: of an id that occurs more than once in the batch, deduplicate_by_id
\* of a log type (log_vidrios_produccion, v_log_cambios_etapa) keeps the
\* first occurrence and that of any other type keeps the last
C19_FirstOrLastKept ==
    dd_pc = "returned"
        => \A id \in TruthyIds :
              Cardinality(Occurrences(id)) > 1
                  => \A j \in 1..Len(dd_out.unique) :
                        dd_out.unique[j].id = id
                            => dd_out.unique[j] =
                                   dd_in[IF dd_ctl \in LogTypes
                                         THEN FirstOf(Occurrences(id))
                                         ELSE LastOf(Occurrences(id))]

\* C20: deduplicate_by_id returns one record of the input for each distinct
\* non-empty id of the input and none for the empty id, and the count it
\* reports as removed is len(input) - len(output)
C20_OnePerTruthyId ==
    dd_pc = "returned"
        => /\ Len(dd_out.unique) = Cardinality(TruthyIds)
           /\ {dd_out.unique[j].id : j \in 1..Len(dd_out.unique)} = TruthyIds
           /\ SeqToSet(dd_out.unique) \subseteq SeqToSet(dd_in)
           /\ dd_out.removed = Len(dd_in) - Len(dd_out.unique)
           /\ dd_out.printed = (dd_out.removed > 0)

\* a call whose input holds a record without id and an id that occurs twice
C20_Witness ==
    /\ dd_pc = "returned"
    /\ \E k \in 1..Len(dd_in) : dd_in[k].id = << >>
    /\ \E id \in TruthyIds : Cardinality(Occurrences(id)) > 1
    /\ dd_out.removed = 2
    /\ Len(dd_out.unique) = 1

\* ------------------------------------------------------ transform claims
\* the records of the batch that are objects, in input order
GoodItems == SelectSeq(xf_in, LAMBDA rec : ~TransformRaises(rec))

\* C21: a record whose transform fails does not abort its batch, on any
\* sync path: it is skipped and counted, and every other record of the batch
\* is transformed, in input order, and passed on
C21_BadRecordSkipped ==
    xf_pc = "done"
        => /\ ~xf_out.raised
           /\ xf_out.out = [k \in 1..Len(GoodItems) |-> Transform(xf_path, GoodItems[k])]
           /\ xf_out.errors = Len(xf_in) - Len(GoodItems)
           /\ Len(xf_out.out) = Len(xf_in) - xf_out.errors

\* ---------------------------------------------------------- fetch claims
CeilDiv(n, p) == (n + p - 1) \div p

Max(a, b) == IF a > b THEN a ELSE b

AllRecords(n) == [k \in 1..n |-> k]

\* the source served every page request (possibly after retries) with status 200
AllAnswered200 == \A k \in 1..Len(f_log) : f_log[k].status = "200"

\* the fetch ran to its end against a source whose hasMore is true exactly
\* while records remain
HonestRunDone == f_pc = "done" /\ src_shape = "dict" /\ AllAnswered200

C7_RetryBackoff ==
    \A k \in 1..Len(f_log) :
        LET q == f_log[k] IN
        /\ q.attempts <= HTTP_MAX_RETRIES
        /\ Len(q.waits) = q.attempts - 1
        /\ \A a \in 1..Len(q.waits) : q.waits[a] = HTTP_RETRY_DELAY * Pow2(a - 1)
        /\ q.status = "error" =>
               /\ k = Len(f_log)
               /\ f_pc /= "request"
               /\ f_pc = "done" => f_st.ok = "false"

\* C8: a fetch whose last page request was answered 404 ends with
\* success = true and keeps the records of the earlier pages.
C8_NotFoundIsEmpty ==
    (/\ f_kind \in {"pages", "direct", "stream"}
     /\ f_pc = "done"
     /\ f_log /= << >>
     /\ f_log[Len(f_log)].status = "404") =>
        /\ f_st.ok = "true"
        /\ f_st.ret = f_st.records

\* the continuation signal of a page: hasMore for an object, a full page for
\* a bare array
MoreSignalled(data) ==
    IF data.kind = "dict" THEN data.hasMore ELSE Len(data.items) = f_P

\* C9: after a page answered 200 the buffered and the streaming fetcher go on
\* to request the next page exactly when the page is non-empty and its
\* continuation signal says more data remains.
C9_NextPageRule ==
    [][(/\ f_pc = "process"
        /\ f_kind \in {"pages", "direct", "stream"}
        /\ f_resp.status = "200") =>
           ((f_pc' = "request") <=>
                (f_resp.data.items /= << >> /\ MoreSignalled(f_resp.data)))]_vars

\* the page requests whose response the loop has dealt with
Processed == IF f_pc = "process" THEN SubSeq(f_log, 1, Len(f_log) - 1) ELSE f_log

\* the pages that came back with items
NonEmptyPages(log) == SelectSeq(log, LAMBDA e : e.got /= << >>)

\* the items of the page the loop holds between a response and its handling
PageInHand == IF f_pc = "process" THEN f_log[Len(f_log)].got ELSE << >>

\* C11: in streaming mode the callback has been called exactly once for each
\* non-empty page handled so far, in order and with that page's items; the
\* fetcher accumulates nothing and returns an empty list; and the records it
\* holds, the page in hand included, never exceed one page size P.
C11_StreamingBound ==
    f_kind = "stream" =>
        /\ LET pages == NonEmptyPages(Processed)
           IN  f_st.cb = [k \in 1..Len(pages) |-> pages[k].got]
        /\ f_pc = "done" => f_st.ret = << >>
        /\ Len(f_st.records) + Len(PageInHand) <= f_P

\* a streaming fetch of more than one page has ended
C11_Witness ==
    /\ f_kind = "stream"
    /\ f_pc = "done"
    /\ f_st.ok = "true"
    /\ src_n > f_P
    /\ Len(f_st.cb) >= 2
    /\ f_st.total = src_n
    /\ f_st.ret = << >>

\* the rows the page pipeline has written once the pages of log are through
RowsOfPages(log) ==
    UNION {{TransformLogCambiosEtapa(SourceRecord(log[k].got[i])) :
                i \in 1..Len(log[k].got)} : k \in 1..Len(log)}

\* C12: the k-th page request of a run uses offset (k-1) * P, and in
\* streaming mode, when the k-th request is issued, the callback has returned
\* for every non-empty page before it and the rows of those pages are in the
\* destination.
C12_PagesInOrder ==
    /\ \A k \in 1..Len(f_log) : f_log[k].offset = (k - 1) * f_P
    /\ f_kind = "stream" =>
           \A k \in 1..Len(f_log) :
               LET before == SubSeq(f_log, 1, k - 1)
               IN  /\ f_log[k].cbs = Len(NonEmptyPages(before))
                   /\ f_log[k].rows = RowsOfPages(before)

\* a streaming fetch whose third request found the rows of two pages written
C12_Witness ==
    /\ f_kind = "stream"
    /\ f_pc = "done"
    /\ Len(f_log) = 3
    /\ f_log[3].offset = 2 * f_P
    /\ f_log[3].cbs = 2
    /\ Cardinality(f_log[3].rows) = 2 * f_P
    /\ Cardinality(dest) = src_n

\* C10: every paginated fetch loop terminates, also against a source that
\* answers every request with a full page and hasMore = true.
C10_FetchTerminates == <>(f_pc \in {"done", "raised"})

\* -------------------------------------------------- composite fetch claims
\* the upstream records the listing request serves, and the orders fetch_all
\* is to ask for
ServedLogs ==
    IF cf_args.fecha_desde /= 0 /\ cf_args.fecha_hasta /= 0
    THEN ServedPeriod(cf_logs, cf_args.fecha_desde, cf_args.fecha_hasta)
    ELSE cf_logs

ExpectedOrdenes ==
    IF cf_args.ordenes /= << >> THEN cf_args.ordenes
    ELSE Sorted({ServedLogs[k].key : k \in 1..Len(ServedLogs)})

\* the records the callback was called with, call after call
RECURSIVE RowsOfCalls(_)
RowsOfCalls(cb) == IF cb = << >> THEN << >> ELSE Head(cb) \o RowsOfCalls(Tail(cb))

\* the order whose request sequence reaches the page that fails
KeyFailed(k) == cf_fail.key = k /\ cf_fail.page <= CeilDiv(k, RunPage)

RECURSIVE ConcatSucceeded(_, _)
ConcatSucceeded(ordenes, idx) ==
    IF idx > Len(ordenes) THEN << >>
    ELSE (IF KeyFailed(ordenes[idx]) THEN << >> ELSE CambiosOf(ordenes[idx]))
             \o ConcatSucceeded(ordenes, idx + 1)

PerKeyLoopEntered ==
    /\ cf_pc = "returned"
    /\ cf_out.path = "composite"
    /\ cf_args.ordenes /= << >> \/ ~cf_fail.listing

\* C25: in the composite fetch an order whose paginated fetch fails
\* contributes no record, also when some of its pages had come, and does
\* not stop the loop: every order is asked for, and fetch_all returns
\* success with the records of the orders that succeeded, in order
C25_FailedKeyTolerated ==
    PerKeyLoopEntered
        => /\ cf_out.success
           /\ cf_out.keys = ExpectedOrdenes
           /\ cf_out.records = ConcatSucceeded(ExpectedOrdenes, 1)

\* an order failed on its second page, after its first page had come, and an
\* order after it was fetched
C25_Witness ==
    /\ PerKeyLoopEntered
    /\ cf_out.errors = 1
    /\ \E i \in 1..Len(cf_out.keys) :
           /\ KeyFailed(cf_out.keys[i])
           /\ cf_out.got[i] /= << >>
           /\ i < Len(cf_out.keys)
    /\ cf_out.records /= << >>

NoFilter ==
    cf_args.fecha_desde = 0 /\ cf_args.fecha_hasta = 0 /\ cf_args.ordenes = << >>

\* C26: fetch_all takes the direct path exactly when neither date nor order
\* list is given, and then makes one paginated fetch of the whole table and
\* no upstream and no per-order request; with a date range it fetches the
\* upstream records of the range and asks once for each distinct order
C26_DirectOrPerKey ==
    cf_pc = "returned"
        => /\ (cf_out.path = "direct") <=> NoFilter
           /\ cf_out.path = "direct"
                => /\ cf_out.upstream = 0
                   /\ cf_out.keys = << >>
                   /\ ~cf_fail.listing
                        => /\ cf_out.success
                           /\ cf_out.records =
                                  (IF cf_args.streaming THEN << >> ELSE AllCambios(MaxKey))
                           /\ cf_args.streaming
                                => RowsOfCalls(cf_out.cb) = AllCambios(MaxKey)
           /\ (cf_args.fecha_desde /= 0 /\ cf_args.fecha_hasta /= 0
                  /\ cf_args.ordenes = << >>)
                => /\ cf_out.upstream = 1
                   /\ ~cf_fail.listing
                        => /\ cf_out.keys = ExpectedOrdenes
                           /\ \A i, j \in 1..Len(cf_out.keys) :
                                  cf_out.keys[i] = cf_out.keys[j] => i = j

\* a date range whose upstream records name one order twice
C26_Witness ==
    /\ cf_pc = "returned"
    /\ cf_args.fecha_desde /= 0 /\ cf_args.fecha_hasta /= 0 /\ cf_args.ordenes = << >>
    /\ Len(ServedLogs) = 2
    /\ ServedLogs[1].key = ServedLogs[2].key
    /\ Len(cf_out.keys) = 1
    /\ cf_out.success

\* ------------------------------------------------------ controller claims
\* a batch handed to transform_all that is not empty and of which no record
\* was transformed
EmptyTransform(batch) ==
    batch /= << >> /\ TransformAll(pp_path, batch).out = << >>

\* C22: a run one of whose fetched batches (the whole input when buffered,
\* a page when streaming) is not empty and yields no transformed record
\* ends with success false and an error, and a buffered one writes nothing
C22_EmptyTransformFails ==
    (/\ pp_pc = "returned"
     /\ \E c \in 1..Len(pp_out.pages) : EmptyTransform(pp_out.pages[c]))
    => /\ ~pp_out.success
       /\ pp_out.error /= "none"
       /\ Len(pp_out.pages) = 1 => dest = pp_dest0

\* the fields of the result dict sync() returns
Report(result) ==
    [success |-> result.success, records_fetched |-> result.records_fetched,
     records_synced |-> result.records_synced, error |-> result.error,
     sync_type |-> result.sync_type, fecha_desde |-> result.fecha_desde,
     fecha_hasta |-> result.fecha_hasta]

\* the transformer skipped a record of one of the batches
RecordSkipped ==
    \E c \in 1..Len(pp_out.pages) :
        LET t == TransformAll(pp_path, pp_out.pages[c])
        IN  ~t.raised /\ t.errors > 0

\* the run took the composite fetch and the requests of one order failed
ParentKeyFailed ==
    /\ pp_path = "v_log"
    /\ GetLastSyncInfo(pp_dest0, pp_env.read_fails) /= 0
    /\ pp_env.fail_key /= 0

\* the sink skipped a sub-batch and went on
SubBatchSkipped ==
    /\ pp_path = "clientes"
    /\ pp_env.first_fail /= 0
    /\ pp_out.unique /= << >>

\* the read of the last fec_modif of the destination failed
WatermarkReadFailed == pp_env.read_fails

\* the run met a failure it recovered from and returned its report
RecoveredFailure ==
    /\ pp_pc = "returned"
    /\ pp_out.success
    /\ RecordSkipped \/ ParentKeyFailed \/ SubBatchSkipped \/ WatermarkReadFailed

\* the report of the same run with no failure: the source serves no item
\* that is not an object and every read and request succeeds
FailureFreeReport ==
    Report(SyncWithDefaults(pp_path, pp_dest0,
                          SelectSeq(pp_src, LAMBDA item : ~TransformRaises(item)),
                          NoPipeEnv).result)

\* C23: the report of a run that recovered from a failure (a record
\* skipped by the transformer, an order whose fetch failed, a sub-batch
\* skipped by the sink, a failed read of the watermark) differs from the
\* report of the same run without any failure
C23_RecoveredFailureReported ==
    RecoveredFailure => Report(pp_out) /= FailureFreeReport

\* C24: when a run has returned, records_synced is at most the number of
\* records left by the deduplication (of all pages when streaming), which is
\* at most records_fetched
C24_CountsChain ==
    pp_pc = "returned"
    => /\ pp_out.records_synced <= Len(pp_out.unique)
       /\ Len(pp_out.unique) <= pp_out.records_fetched

\* a streaming run of two pages and a buffered run that both wrote rows
C24_Witness ==
    /\ pp_pc = "returned"
    /\ pp_out.success
    /\ pp_out.records_synced > 0
    /\ \/ Len(pp_out.pages) > 1
       \/ pp_out.records_synced < Len(pp_out.unique)

DifferInFecModifOnly(a, b) ==
    /\ a.fec_modif /= b.fec_modif
    /\ [a EXCEPT !.fec_modif = NoneStr] = [b EXCEPT !.fec_modif = NoneStr]

\* C28: on every sync path of the log type v_log_cambios_etapa, two events
\* that differ in fec_modif only get different ids, and once both are synced
\* the destination holds a row for each
C28_EventsKeepOwnRows ==
    (/\ id_pc = "done"
     /\ id_path \in LogPaths
     /\ DifferInFecModifOnly(id_in[1], id_in[2]))
    => /\ id_out.ids[1] /= id_out.ids[2]
       /\ Cardinality(id_out.rows) = 2

\* the key fields of a type, in the order of its id
KeyFields(path) ==
    IF path \in DetallePaths
    THEN <<"no_cotizacion", "dec_seq", "renglon">>
    ELSE <<"no_orden_produccion", "dec_seq", "vip_seq", "no_etapa">>

\* the texts joined with '_'
RECURSIVE JoinUnderscore(_)
JoinUnderscore(parts) ==
    IF Len(parts) = 1 THEN parts[1]
    ELSE parts[1] \o <<Underscore>> \o JoinUnderscore(Tail(parts))

KeyTexts(path, record) ==
    [k \in 1..Len(KeyFields(path)) |-> PyStr(record[KeyFields(path)[k]])]

\* C30: the id of a detalle_cotizacion record is the texts of no_cotizacion,
\* dec_seq and renglon joined with '_' in that order, the same record gets
\* the same id on every call, and {no_cotizacion: 100, dec_seq: 2,
\* renglon: 3} gets "100_2_3"
C30_CompositeIdJoined ==
    (id_pc = "done" /\ id_path \in DetallePaths)
    => /\ \A i \in 1..Len(id_in) :
              id_out.ids[i] = JoinUnderscore(KeyTexts(id_path, id_in[i]))
       /\ \A i, j \in 1..Len(id_in) : id_in[i] = id_in[j] => id_out.ids[i] = id_out.ids[j]
       /\ \A i \in 1..Len(id_in) :
              id_in[i] = [no_cotizacion |-> 100, dec_seq |-> 2, renglon |-> 3]
              => id_out.ids[i] = <<Tok("digits", 100), Underscore, Tok("digits", 2),
                                   Underscore, Tok("digits", 3)>>

\* the record of the example transformed twice
C30_Witness ==
    /\ id_pc = "done"
    /\ id_path \in DetallePaths
    /\ Len(id_in) = 2
    /\ id_in[1] = [no_cotizacion |-> 100, dec_seq |-> 2, renglon |-> 3]
    /\ id_in[2] = id_in[1]
    /\ Len(id_out.ids) = 2

\* ------------------------------------------------------ upsert request claims
\* the records of the sub-batches requested, one after the other
RECURSIVE SentRecords(_, _, _, _)
SentRecords(records, bs, sent, k) ==
    IF k > Len(sent) THEN << >>
    ELSE SubBatch(records, (sent[k] - 1) * bs, bs) \o SentRecords(records, bs, sent, k + 1)

\* C29: one call of batch_upsert on n records with batch size b issues
\* ceil(n/b) upsert requests, the k-th carrying the k-th slice of at most b
\* records, the slices making up the input in order; on an empty list it
\* issues none and returns 0
C29_CeilUpsertRequests ==
    (sk_pc /= "idle" /\ sk_out.impl \in {"utils", "client"})
    => /\ Len(sk_out.sent) = NumBatches(Len(sk_records), sk_bs)
       /\ \A k \in 1..Len(sk_out.sent) :
              /\ sk_out.sent[k] = k
              /\ Len(SubBatch(sk_records, (k - 1) * sk_bs, sk_bs)) \in 1..sk_bs
       /\ SentRecords(sk_records, sk_bs, sk_out.sent, 1) = sk_records
       /\ sk_records = << >> => sk_out.total = 0 /\ sk_pc = "returned"

\* ------------------------------------------------------- streaming claims
\* the run of v_log_cambios_etapa took the full load in streaming mode
StreamingRun ==
    /\ pp_path = "v_log"
    /\ GetLastSyncInfo(pp_dest0, pp_env.read_fails) = 0

\* the pages the direct endpoint serves of pp_src
PagesOf(src) == FetchAllDirect(src, RunPage, TRUE, EnvOf(FALSE, 1)).cb

\* the same run, without a failure, over the source less its first page
RunLessFirstPage ==
    VLogSync(pp_dest0, SubSeq(pp_src, RunPage + 1, Len(pp_src)), pp_env.read_fails,
             0, 0, 0)

Unfiltered(req) == req.path \in {"log_vidrios_produccion", "v_log_cambios_etapa"}

\* C32: the first fetch a run of log_vidrios_produccion or of
\* v_log_cambios_etapa issues, when it asks for a whole table, runs in
\* streaming mode
C32_FullLoadStreams ==
    (rg_pc = "resolved" /\ Unfiltered(rg_req)) => rg_req.streaming

\* C37: a run of log_vidrios_produccion that resolved both ends of its
\* range requests the period path of those two days, and it requests the
\* general endpoint only when the resolved range has no end set
C37_RangeGoesToPeriodPath ==
    (rg_pc = "resolved" /\ rg_ctl = "log_vidrios")
    => /\ (rg_out.fecha_desde /= NoneStr /\ rg_out.fecha_hasta /= NoneStr)
            => /\ rg_req.path = "periodo/log_vidrios"
               /\ IsoParses(rg_out.fecha_desde) => rg_req.fec1 = IsoDate(rg_out.fecha_desde)
               /\ IsoParses(rg_out.fecha_hasta) => rg_req.fec2 = IsoDate(rg_out.fecha_hasta)
       /\ Unfiltered(rg_req)
            => rg_out.fecha_desde = NoneStr /\ rg_out.fecha_hasta = NoneStr

\* -------------------------------------------------------- report claims
RECURSIVE SumLen(_)
SumLen(pages) == IF pages = << >> THEN 0 ELSE Len(Head(pages)) + SumLen(Tail(pages))

\* the records the fetcher delivered: the list it returned, or the pages
\* it handed to process_batch
Delivered == SumLen(pp_out.pages)

\* the records the destination accepted during the run: page after page
\* when streaming, the rows of the accepted sub-batches otherwise
Committed ==
    IF StreamingRun
    THEN StreamPages([dest |-> pp_dest0, fetched |-> 0, synced |-> 0, dupes |-> 0,
                      unique |-> << >>, written |-> {},
                      fail_page |-> pp_env.first_fail], pp_out.pages, 1).synced
    ELSE Cardinality(pp_out.written)

\* C33: the report of a run that returned, failed or not, carries the
\* number of records the fetcher delivered in records_fetched and the
\* number the destination accepted in records_synced, and an error when
\* the run failed
C33_ReportCarriesCounts ==
    pp_pc = "returned"
    => /\ pp_out.records_fetched = Delivered
       /\ pp_out.records_synced = Committed
       /\ ~pp_out.success => pp_out.error /= "none"

\* ------------------------------------------------- fetch failure claims
\* the page requests a fetch makes of a source that serves n records
RequestedPages(n) == IF n = 0 THEN 1 ELSE CeilDiv(n, RunPage)

\* the records the endpoint of a single-endpoint run serves
ServedToRun ==
    IF pp_path = "log_vidrios"
    THEN LET last_modified == GetLastSyncInfo(pp_dest0, pp_env.read_fails)
         IN  ServedPeriod(pp_src,
                          IF last_modified /= 0 THEN last_modified
                          ELSE Today - DIAS_HISTORICO, Today)
    ELSE pp_src

\* a page request of the fetch failed on all its attempts
PageRequestFailed == pp_env.fail_page \in 1..RequestedPages(Len(ServedToRun))

\* a buffered run whose fetch reported a failure: a page of the one
\* endpoint of clientes or log_vidrios_produccion, or of the listing of the
\* orders of v_log_cambios_etapa
BufferedFetchFailed ==
    /\ ~StreamingRun
    /\ IF pp_path = "v_log" THEN pp_env.fail_page = 1 ELSE PageRequestFailed

\* the run wrote nothing: the sink was handed no record
NothingWritten ==
    /\ dest = pp_dest0
    /\ pp_out.unique = << >>
    /\ pp_out.records_synced = 0

\* a streaming run one of whose page requests failed left what the run
\* over the pages before it leaves
StreamKeepsEarlierPages ==
    (StreamingRun /\ PageRequestFailed)
    => /\ ~pp_out.success
       /\ dest = VLogSync(pp_dest0,
                          SubSeq(pp_src, 1, (pp_env.fail_page - 1) * RunPage),
                          pp_env.read_fails, 0, 0, pp_env.first_fail).dest

\* C34: a buffered run whose fetch reported a failure, at whatever page,
\* ends without success and wrote nothing, and a streaming run keeps the
\* pages before the failed one and nothing of the pages after it
C34_FailedFetchLeavesDest ==
    pp_pc = "returned"
    => /\ BufferedFetchFailed => ~pp_out.success /\ NothingWritten
       /\ StreamKeepsEarlierPages

\* a run of clientes over two pages whose second page request failed,
\* into a destination the first page would have changed
C34_Witness ==
    /\ pp_pc = "returned"
    /\ pp_path = "clientes"
    /\ pp_env.fail_page = 2
    /\ Len(pp_src) = 2
    /\ ~TransformRaises(pp_src[1])
    /\ pp_env.first_fail = 0
    /\ pp_dest0 = {}
    /\ pp_out.error = "fetch"

\* ------------------------------------------------------ watermark claims
\* the run took the path of a destination without rows: the lookback of
\* DIAS_HISTORICO days for log_vidrios_produccion, the full load in
\* streaming mode for v_log_cambios_etapa
EmptyDestinationPath ==
    IF rg_ctl = "log_vidrios"
    THEN rg_out.sync_type = "initial"
    ELSE rg_out.is_full_load /\ rg_req.streaming

\* C35: sync() takes the path of an empty destination only when the read
\* of the last fec_modif succeeded and the destination holds no row
C35_FailedReadIsNotEmpty ==
    (rg_pc = "resolved" /\ EmptyDestinationPath)
    => rg_fmt /= "fails" /\ dest = {}

\* ----------------------------------------------------- extraction claims
\* the item list of a response as the claim words it: the bare array, or
\* the value of the first of the keys items, rows, data that holds a list,
\* and no record otherwise
ItemList(data) ==
    CASE data.kind = "list" -> [list |-> data.list, self |-> FALSE]
      [] data.kind = "dict" /\ HoldsList(data.items) -> [list |-> data.items.v, self |-> FALSE]
      [] data.kind = "dict" /\ HoldsList(data.rows) -> [list |-> data.rows.v, self |-> FALSE]
      [] data.kind = "dict" /\ HoldsList(data.data) -> [list |-> data.data.v, self |-> FALSE]
      [] OTHER -> NoItems

\* C36: the records each fetcher takes from a response are its item list,
\* so an object with none of the three keys gives no record and the two
\* fetchers take the same records
C36_ItemListExtracted ==
    /\ "pages" \in ex_done => ex_out.pages = ItemList(ex_data)
    /\ "direct" \in ex_done => ex_out.direct = ItemList(ex_data)
    /\ ex_done = {"pages", "direct"} => ex_out.pages = ex_out.direct

\* ------------------------------------------------------- identity claims
\* the values of the fields the id of the type is built from, a null or an
\* unset field as NoneStr or 0
KeyTuple(path, record) ==
    CASE path = "v_log" ->
             <<record.no_orden_produccion, record.dec_seq, record.vip_seq,
               record.no_etapa, record.fec_modif>>
      [] path = "log_vidrios" ->
             <<record.no_orden_produccion, record.no_cotizacion, record.dec_seq,
               record.vip_seq, record.campo, record.fec_modif>>
      [] OTHER -> <<record.no_cliente>>

\* C38: two records of log_vidrios_produccion, of v_log_cambios_etapa or
\* of clientes whose key-field values differ, a null against a value and
\* a value with a '_' included, get different ids, and once both are
\* synced the destination holds a row for each
C38_IdsInjective ==
    (/\ id_pc = "done"
     /\ id_path \in {"v_log", "log_vidrios", "clientes"}
     /\ KeyTuple(id_path, id_in[1]) /= KeyTuple(id_path, id_in[2]))
    => /\ id_out.ids[1] /= id_out.ids[2]
       /\ Cardinality(id_out.rows) = 2

====
